---- MODULE Spec2Model ----
(***************************************************************************)
(* omnipr: one reconcile (branch preparation, change resolution, commit,   *)
(* pull request) against a remote Git host.                                *)
(*                                                                         *)
(* The remote repository is the shared state: branch heads, a commit       *)
(* store and the list of pull requests.  The client side is the entry      *)
(* operation of each implementation generation found in the repository:    *)
(*   "omnipr"    omnipr.ts createPr over the Provider interface            *)
(*               (providers/github.ts, providers/bitbucket.ts)             *)
(*   "gitlab"    pull-request.ts pullRequest over providers/gitlab.ts      *)
(*   "bitbucket" pull-request.ts pullRequest over the legacy Bitbucket     *)
(*               provider                                                  *)
(*   "github"    GithubProvider.createPullRequest of the GitProvider       *)
(*               generation that throws OmniPRError                        *)
(* Every provider request is one step that either succeeds or fails.       *)
(***************************************************************************)
EXTENDS Integers, Sequences, FiniteSets, TLC

VARIABLES
  heads,      \* remote: branch name -> head commit id (0: no such branch)
  commits,    \* remote: commit store, id = index, [tree, parent]
  prs,        \* remote: pull requests, id = index
  hostUnique, \* remote: the host rejects a second open pull request for a pair
  impl,       \* which implementation generation runs
  provider,   \* which Provider class createPr runs over
  basePath,   \* options.path of the reconciles
  fnIn,       \* input of the function applied last (setup, pull)
  fnOut,      \* what that function returned or threw
  prov,       \* legacy provider instance fields this.sourceBranch / this.targetBranch
  run,        \* number of invocations started
  opts,       \* options of the current invocation
  pc,         \* position of the current invocation
  loc,        \* local variables of the current invocation
  log,        \* provider requests issued by the current invocation
  calls,      \* resolver calls made by the current invocation
  result,     \* outcome delivered to the caller
  pre         \* remote state when the current invocation started

vars == <<heads, commits, prs, hostUnique, impl, provider, basePath, fnIn, fnOut,
          prov, run, opts, pc, loc, log, calls, result, pre>>

\* what no step of a reconcile changes
frame == <<impl, provider, basePath, fnIn, fnOut>>

remote == <<heads, commits, prs, hostUnique>>

----------------------------------------------------------------------------
(* Bounds and value sets *)

MaxRuns == 2

Impls == {"omnipr", "gitlab", "bitbucket", "github"}

Source == "feature"
Target == "main"
Other == "other"
BranchNames == {Source, Target}

Providers == {"github", "bitbucket", "gitlab"}

Paths == {"a", "b", "dir/a", "dir/b"}

NoFile == [ex |-> FALSE, c |-> ""]
File(c) == [ex |-> TRUE, c |-> c]

\* the target's tree and a tree that exists only on a diverged source branch
TargetTree == [p \in Paths |-> IF p = "a" THEN File("v1") ELSE NoFile]
DivergedTree == [p \in Paths |-> IF p = "a" THEN File("") ELSE File("old")]

InitCommits == << [tree |-> TargetTree, parent |-> 0],
                  [tree |-> DivergedTree, parent |-> 1] >>

\* JS undefined | string
Undefined == [def |-> FALSE, v |-> ""]
Defined(s) == [def |-> TRUE, v |-> s]

\* FileChange: a literal string, null, or a callback
Lit(s) == [kind |-> "str", v |-> s]
Null == [kind |-> "null", v |-> ""]
Fn(name) == [kind |-> "fn", v |-> name]

\* callbacks used as inputs: (f) => f.contents + "-v2", (f) => f.exists ? null : "new"
Resolvers == {"append", "toggle"}

\* JS string concatenation renders undefined as "undefined"
Str(x) == IF x.def THEN x.v ELSE "undefined"

ApplyResolver(name, arg) ==
  IF name = "append"
    THEN [del |-> FALSE, c |-> Str(arg.contents) \o "-v2"]
    ELSE IF arg.exists THEN [del |-> TRUE, c |-> ""] ELSE [del |-> FALSE, c |-> "new"]

Entry(p, ch) == [path |-> p, change |-> ch]

\* change maps, in insertion order
ChangeMaps == { << Entry("b", Null), Entry("a", Lit("hello")) >>,
                << Entry("a", Fn("append")) >>,
                << Entry("b", Fn("toggle")), Entry("a", Null) >>,
                << Entry("b", Fn("toggle")), Entry("a", Fn("append")) >> }

\* the n-th invocation asks for its own title and description
TitleOf(n) == 10 + n
DescOf(n) == 20 + n

PR(s, t, title, desc) ==
  [source |-> s, target |-> t, title |-> title, desc |-> desc, open |-> TRUE]

NoOpts == [call |-> "none", reset |-> FALSE, changes |-> <<>>, title |-> 0, desc |-> 0]
NoResult == [status |-> "none", err |-> "", link |-> 0]
Ok(link) == [status |-> "ok", err |-> "", link |-> link]
Err(e) == [status |-> "error", err |-> e, link |-> 0]

LocInit == [targetSha |-> 0, sourceSha |-> 0, i |-> 1, changes |-> <<>>,
            baseTree |-> [p \in Paths |-> NoFile], parent |-> 0,
            newTree |-> [p \in Paths |-> NoFile], newCommit |-> 0, prId |-> 0,
            conflict |-> FALSE, rejected |-> FALSE, picked |-> {}, existing |-> [p \in Paths |-> Undefined]]

Req(op, ok) == [op |-> op, ok |-> ok]

Count(op) == Cardinality({k \in 1..Len(log) : log[k].op = op})

Idle == pc \in {"idle", "done", "failed"}

----------------------------------------------------------------------------
(* The remote host, as the providers' requests see it *)

\* GET branch: the head commit id, 0 when the host answers 404
SrvBranchSha(b) == heads[b]

\* tree of a branch's head; a branch that does not exist has no files
SrvTree(b) == IF heads[b] = 0 THEN [p \in Paths |-> NoFile] ELSE commits[heads[b]].tree

\* raw file content: undefined on 404
SrvFileContent(b, p) ==
  IF SrvTree(b)[p].ex THEN Defined(SrvTree(b)[p].c) ELSE Undefined

\* ids of the open pull requests from s to t, in the host's listing order
RECURSIVE SelectIds(_, _, _)
SelectIds(s, t, k) ==
  IF k > Len(prs) THEN <<>>
  ELSE IF prs[k].open /\ prs[k].source = s /\ prs[k].target = t
         THEN <<k>> \o SelectIds(s, t, k + 1)
         ELSE SelectIds(s, t, k + 1)

SrvOpenPRs(s, t) == SelectIds(s, t, 1)

\* a host that enforces one open pull request per pair rejects a second one
\* variant: a host that opens a pull request for a pair that has an open one
SrvCanCreatePRAlways(s, t) == TRUE

SrvCanCreatePR(s, t) == ~hostUnique \/ SrvOpenPRs(s, t) = <<>>

\* the atomic action-list commit is applied as a whole or rejected as a whole:
\* create needs the path absent, update and delete need it present
SrvActionsAccepted(tree, actions) ==
  \A k \in 1..Len(actions) :
     IF actions[k].action = "create" THEN ~tree[actions[k].path].ex
                                     ELSE tree[actions[k].path].ex

\* variant: a deleted path stays in the tree, with an empty content
RECURSIVE LayerKeepingDeleted(_, _, _)
LayerKeepingDeleted(base, entries, k) ==
  IF k > Len(entries) THEN base
  ELSE LayerKeepingDeleted([base EXCEPT ![entries[k].path] =
                              IF entries[k].del THEN File("") ELSE File(entries[k].c)],
                           entries, k + 1)

\* a tree with the entries layered on a base tree
RECURSIVE Layer(_, _, _)
Layer(base, entries, k) ==
  IF k > Len(entries) THEN base
  ELSE Layer([base EXCEPT ![entries[k].path] =
                 IF entries[k].del THEN NoFile ELSE File(entries[k].c)],
             entries, k + 1)

----------------------------------------------------------------------------
\* the state after construction, with options.path as given
Start(path) ==
  /\ commits = InitCommits
  /\ heads \in { h \in [BranchNames -> 0..2] : h[Target] \in {0, 1} }
  /\ prs \in { << PR(Other, Target, TitleOf(0), DescOf(0)) >>,
                << PR(Source, Target, TitleOf(0), DescOf(0)),
                   PR(Other, Target, TitleOf(0), DescOf(0)) >> }
  /\ hostUnique \in BOOLEAN
  /\ impl \in Impls
  /\ provider \in (IF impl = "omnipr" THEN Providers ELSE {"none"})
  /\ basePath = path
  /\ fnIn = <<>>
  /\ fnOut = <<>>
  /\ prov = [source |-> 0, target |-> 0]
  /\ run = 0
  /\ opts = NoOpts
  /\ pc = "idle"
  /\ loc = LocInit
  /\ log = <<>>
  /\ calls = <<>>
  /\ result = NoResult
  /\ pre = [heads |-> heads, prs |-> prs, ncommits |-> Len(commits),
            call |-> "none", link |-> 0, stoppedAfterDelete |-> FALSE]

Init == Start("")

\* the same program with the option path: 'dir'
InitScope == Start("dir")

\* the inputs of a reconcile, and of a direct createPullRequest call
ReconcileOpts(call) ==
  { [call |-> call, reset |-> r, changes |-> ch,
     title |-> TitleOf(run + 1), desc |-> DescOf(run + 1)] :
      r \in BOOLEAN, ch \in ChangeMaps }

PullRequestOpts(call) ==
  { [call |-> call, reset |-> FALSE, changes |-> <<>>,
     title |-> TitleOf(run + 1), desc |-> DescOf(run + 1)] }

\* the invocation has deleted the source branch and has not created it
StoppedAfterDelete ==
  /\ \E k \in 1..Len(log) : log[k] = Req("deleteBranch", TRUE)
  /\ \A k \in 1..Len(log) : log[k] # Req("createBranch", TRUE)

\* a new invocation with fresh inputs.  The previous invocation has ended, or its
\* process has stopped where it was (a crash) and issues no further request.
Begin(first, inputs) ==
  /\ run < MaxRuns
  /\ run' = run + 1
  /\ \E o \in inputs : opts' = o
  /\ pc' = first
  /\ loc' = LocInit
  /\ log' = <<>>
  /\ calls' = <<>>
  /\ result' = NoResult
  /\ pre' = [heads |-> heads, prs |-> prs, ncommits |-> Len(commits),
             call |-> opts.call,
             link |-> IF pc = "done" /\ result.status = "ok" THEN result.link ELSE 0,
             stoppedAfterDelete |-> StoppedAfterDelete]
  /\ UNCHANGED <<remote, frame, prov>>

\* an exception reaching the caller of the entry operation
Throw(e) ==
  /\ pc' = "failed"
  /\ result' = Err(e)

----------------------------------------------------------------------------
(* omnipr.ts createPr over the Provider interface *)

CreatePrStart ==
  /\ impl = "omnipr"
  /\ Begin("getTarget", ReconcileOpts("createPr"))

\* a caller using the provider's createPullRequest on its own
CreatePullRequestStart ==
  /\ impl = "omnipr"
  /\ Begin("prSearch", PullRequestOpts("createPullRequest"))

\* variant: a lookup of the target that failed is issued again
GetTargetShaRetrying ==
  /\ impl = "omnipr" /\ pc = "getTarget"
  /\ \E ok \in BOOLEAN :
       /\ log' = Append(log, Req("getBranch", ok))
       /\ IF ~ok THEN UNCHANGED <<pc, result, loc>>
          ELSE IF SrvBranchSha(Target) = 0
            THEN Throw("TargetNotFound") /\ UNCHANGED loc
            ELSE /\ loc' = [loc EXCEPT !.targetSha = SrvBranchSha(Target)]
                 /\ pc' = "getSource"
                 /\ UNCHANGED result
  /\ UNCHANGED <<remote, frame, prov, run, opts, calls, pre>>

\* const targetBranchSha = await provider.getBranchSha(options.targetBranch)
GetTargetSha ==
  /\ impl = "omnipr" /\ pc = "getTarget"
  /\ \E ok \in BOOLEAN :
       /\ log' = Append(log, Req("getBranch", ok))
       /\ IF ~ok THEN Throw("RequestError") /\ UNCHANGED loc
          ELSE IF SrvBranchSha(Target) = 0
            THEN Throw("TargetNotFound") /\ UNCHANGED loc
            ELSE /\ loc' = [loc EXCEPT !.targetSha = SrvBranchSha(Target)]
                 /\ pc' = "getSource"
                 /\ UNCHANGED result
  /\ UNCHANGED <<remote, frame, prov, run, opts, calls, pre>>

\* variant: an existing source branch is reset whatever the flag says
AfterSourceLookupAlwaysReset(sourceSha, reset) ==
  IF sourceSha # 0 THEN "deleteBranch" ELSE "createBranch"

\* variant: a missing source branch is not created
AfterSourceLookupNoCreate(sourceSha, reset) ==
  IF sourceSha # 0 /\ reset THEN "deleteBranch" ELSE "resolve"

\* the branch of createPr taken after the source lookup
AfterSourceLookup(sourceSha, reset) ==
  IF sourceSha # 0 /\ reset THEN "deleteBranch"
  ELSE IF sourceSha = 0 THEN "createBranch"
  ELSE "resolve"

\* const sourceBranchExists = await provider.getBranchSha(options.sourceBranch)
GetSourceSha ==
  /\ impl = "omnipr" /\ pc = "getSource"
  /\ \E ok \in BOOLEAN :
       /\ log' = Append(log, Req("getBranch", ok))
       /\ IF ~ok THEN Throw("RequestError") /\ UNCHANGED loc
          ELSE /\ loc' = [loc EXCEPT !.sourceSha = SrvBranchSha(Source)]
               /\ pc' = AfterSourceLookup(SrvBranchSha(Source), opts.reset)
               /\ UNCHANGED result
  /\ UNCHANGED <<remote, frame, prov, run, opts, calls, pre>>

\* variant: the delete is answered as done and the branch stays
DeleteBranchKeepingBranch ==
  /\ impl = "omnipr" /\ pc = "deleteBranch"
  /\ log' = Append(log, Req("deleteBranch", TRUE))
  /\ pc' = "createBranch"
  /\ UNCHANGED <<remote, frame, prov, run, opts, loc, calls, result, pre>>

\* await provider.deleteBranch(options.sourceBranch)
DeleteBranch ==
  /\ impl = "omnipr" /\ pc = "deleteBranch"
  /\ \E ok \in BOOLEAN :
       /\ log' = Append(log, Req("deleteBranch", ok /\ heads[Source] # 0))
       /\ IF ok /\ heads[Source] # 0
            THEN /\ heads' = [heads EXCEPT ![Source] = 0]
                 /\ pc' = "createBranch"
                 /\ UNCHANGED result
            ELSE Throw("RequestError") /\ UNCHANGED heads
  /\ UNCHANGED <<commits, prs, hostUnique, frame, prov, run, opts, loc, calls, pre>>

\* variant: a source branch that was there is made again at its former head
CreateBranchAtFormerHead ==
  /\ impl = "omnipr" /\ pc = "createBranch"
  /\ \E ok \in BOOLEAN :
       /\ log' = Append(log, Req("createBranch", ok /\ heads[Source] = 0))
       /\ IF ok /\ heads[Source] = 0
            THEN /\ heads' = [heads EXCEPT ![Source] =
                                IF loc.sourceSha # 0 THEN loc.sourceSha ELSE loc.targetSha]
                 /\ pc' = "resolve"
                 /\ UNCHANGED result
            ELSE Throw("RequestError") /\ UNCHANGED heads
  /\ UNCHANGED <<commits, prs, hostUnique, frame, prov, run, opts, loc, calls, pre>>

\* await provider.createBranch(options.sourceBranch, targetBranchSha)
CreateBranch ==
  /\ impl = "omnipr" /\ pc = "createBranch"
  /\ \E ok \in BOOLEAN :
       /\ log' = Append(log, Req("createBranch", ok /\ heads[Source] = 0))
       /\ IF ok /\ heads[Source] = 0
            THEN /\ heads' = [heads EXCEPT ![Source] = loc.targetSha]
                 /\ pc' = "resolve"
                 /\ UNCHANGED result
            ELSE Throw("RequestError") /\ UNCHANGED heads
  /\ UNCHANGED <<commits, prs, hostUnique, frame, prov, run, opts, loc, calls, pre>>

\* the argument createPr hands to a callback
ResolverArg(filePath, existingContent) ==
  [exists |-> existingContent.def,
   path |-> filePath,
   contents |-> Defined(IF existingContent.def THEN existingContent.v ELSE "")]

\* where provider.commitChanges starts
CommitStart ==
  IF provider = "github" THEN "commitGet"
  ELSE IF provider = "bitbucket" THEN "commitForm"
  ELSE "commitProbe"

\* variant: the content of the file is read for every entry, literal or not
ResolveChangeReadingAll ==
  /\ impl = "omnipr" /\ pc = "resolve"
  /\ LET e == opts.changes[loc.i]
         nextPc == IF loc.i = Len(opts.changes) THEN CommitStart ELSE "resolve"
     IN \E ok \in BOOLEAN :
          /\ log' = Append(log, Req("getFileContent", ok))
          /\ IF ~ok THEN Throw("RequestError") /\ UNCHANGED <<loc, calls>>
             ELSE LET arg == ResolverArg(e.path, SrvFileContent(Source, e.path))
                      out == IF e.change.kind = "fn" THEN ApplyResolver(e.change.v, arg)
                             ELSE [del |-> e.change.kind = "null", c |-> e.change.v]
                  IN /\ calls' = IF e.change.kind = "fn" THEN Append(calls, arg) ELSE calls
                     /\ loc' = [loc EXCEPT !.i = @ + 1,
                                  !.changes = Append(@, [path |-> e.path,
                                                         del |-> out.del,
                                                         c |-> out.c])]
                     /\ pc' = nextPc
                     /\ UNCHANGED result
  /\ UNCHANGED <<remote, frame, prov, run, opts, pre>>

\* one iteration of: for (const [filePath, change] of Object.entries(options.changes))
ResolveChange ==
  /\ impl = "omnipr" /\ pc = "resolve"
  /\ LET e == opts.changes[loc.i]
         nextPc == IF loc.i = Len(opts.changes) THEN CommitStart ELSE "resolve"
     IN IF e.change.kind \in {"str", "null"}
          THEN /\ loc' = [loc EXCEPT !.i = @ + 1,
                            !.changes = Append(@, [path |-> e.path,
                                                   del |-> e.change.kind = "null",
                                                   c |-> e.change.v])]
               /\ pc' = nextPc
               /\ UNCHANGED <<log, calls, result>>
          ELSE \E ok \in BOOLEAN :
               /\ log' = Append(log, Req("getFileContent", ok))
               /\ IF ~ok THEN Throw("RequestError") /\ UNCHANGED <<loc, calls>>
                  ELSE LET arg == ResolverArg(e.path, SrvFileContent(Source, e.path))
                           out == ApplyResolver(e.change.v, arg)
                       IN /\ calls' = Append(calls, arg)
                          /\ loc' = [loc EXCEPT !.i = @ + 1,
                                       !.changes = Append(@, [path |-> e.path,
                                                              del |-> out.del,
                                                              c |-> out.c])]
                          /\ pc' = nextPc
                          /\ UNCHANGED result
  /\ UNCHANGED <<remote, frame, prov, run, opts, pre>>

(* providers/github.ts commitChanges *)

\* GET /branches/{branch}: base tree and parent commit
CommitGetBranch ==
  /\ impl = "omnipr" /\ pc = "commitGet"
  /\ \E ok \in BOOLEAN :
       /\ log' = Append(log, Req("getBranch", ok /\ heads[Source] # 0))
       /\ IF ok /\ heads[Source] # 0
            THEN /\ loc' = [loc EXCEPT !.baseTree = SrvTree(Source),
                                       !.parent = heads[Source]]
                 /\ pc' = "commitBlobs"
                 /\ UNCHANGED result
            ELSE Throw("RequestError") /\ UNCHANGED loc
  /\ UNCHANGED <<remote, frame, prov, run, opts, calls, pre>>

\* Promise.all of POST /git/blobs, one per non-null entry
CommitBlobs ==
  /\ impl = "omnipr" /\ pc = "commitBlobs"
  /\ IF \A k \in 1..Len(loc.changes) : loc.changes[k].del
       THEN pc' = "commitTree" /\ UNCHANGED <<log, result>>
       ELSE \E ok \in BOOLEAN :
              /\ log' = Append(log, Req("createBlobs", ok))
              /\ IF ok THEN pc' = "commitTree" /\ UNCHANGED result
                      ELSE Throw("RequestError")
  /\ UNCHANGED <<remote, frame, prov, run, opts, loc, calls, pre>>

\* the host does not delete what is not there: an entry that deletes a path
\* the tree does not hold makes it reject the request
SrvDeletesAbsent(tree, entries) ==
  \E k \in 1..Len(entries) : entries[k].del /\ ~tree[entries[k].path].ex

\* POST /git/trees with base_tree; a null sha deletes the path
CommitTree ==
  /\ impl = "omnipr" /\ pc = "commitTree"
  /\ \E ok \in BOOLEAN :
       LET rejected == ok /\ SrvDeletesAbsent(loc.baseTree, loc.changes)
           created == ok /\ ~rejected
       IN /\ log' = Append(log, Req("createTree", created))
          /\ IF created
               THEN /\ loc' = [loc EXCEPT !.newTree = Layer(loc.baseTree, loc.changes, 1)]
                    /\ pc' = "commitObject"
                    /\ UNCHANGED result
               ELSE /\ Throw("RequestError")
                    /\ loc' = [loc EXCEPT !.rejected = rejected]
  /\ UNCHANGED <<remote, frame, prov, run, opts, calls, pre>>

\* variant: the branch is moved as soon as the commit object is created
CommitObjectMovingRef ==
  /\ impl = "omnipr" /\ pc = "commitObject"
  /\ \E ok \in BOOLEAN :
       /\ log' = Append(log, Req("createCommit", ok))
       /\ IF ok THEN /\ commits' = Append(commits, [tree |-> loc.newTree, parent |-> loc.parent])
                     /\ heads' = [heads EXCEPT ![Source] = Len(commits) + 1]
                     /\ loc' = [loc EXCEPT !.newCommit = Len(commits) + 1]
                     /\ pc' = "commitRef"
                     /\ UNCHANGED result
               ELSE Throw("RequestError") /\ UNCHANGED <<loc, commits, heads>>
  /\ UNCHANGED <<prs, hostUnique, frame, prov, run, opts, calls, pre>>

\* POST /git/commits with parents: [parentCommitSha]
CommitObject ==
  /\ impl = "omnipr" /\ pc = "commitObject"
  /\ \E ok \in BOOLEAN :
       /\ log' = Append(log, Req("createCommit", ok))
       /\ IF ok THEN /\ commits' = Append(commits, [tree |-> loc.newTree, parent |-> loc.parent])
                     /\ loc' = [loc EXCEPT !.newCommit = Len(commits) + 1]
                     /\ pc' = "commitRef"
                     /\ UNCHANGED result
               ELSE Throw("RequestError") /\ UNCHANGED <<loc, commits>>
  /\ UNCHANGED <<heads, prs, hostUnique, frame, prov, run, opts, calls, pre>>

\* variant: the reconcile goes on to the pull request whatever the answer
CommitRefThenPullRequest ==
  /\ impl = "omnipr" /\ pc = "commitRef"
  /\ \E ok \in BOOLEAN :
       /\ log' = Append(log, Req("updateRef", ok /\ heads[Source] = loc.parent))
       /\ heads' = IF ok /\ heads[Source] = loc.parent
                     THEN [heads EXCEPT ![Source] = loc.newCommit] ELSE heads
       /\ pc' = "prSearch"
  /\ UNCHANGED <<commits, prs, hostUnique, frame, prov, run, opts, loc, calls, result, pre>>

\* PATCH /git/refs/heads/{branch}: a fast-forward of the branch
\* variant: the ref update is sent with force, so the host moves the ref
\* whatever the branch points at
CommitRefForced ==
  /\ impl = "omnipr" /\ pc = "commitRef"
  /\ \E ok \in BOOLEAN :
       /\ log' = Append(log, Req("updateRef", ok))
       /\ IF ok THEN /\ heads' = [heads EXCEPT ![Source] = loc.newCommit]
                     /\ pc' = "prSearch"
                     /\ UNCHANGED result
               ELSE Throw("RequestError") /\ UNCHANGED heads
  /\ UNCHANGED <<commits, prs, hostUnique, frame, prov, run, opts, loc, calls, pre>>

CommitRef ==
  /\ impl = "omnipr" /\ pc = "commitRef"
  /\ \E ok \in BOOLEAN :
       /\ log' = Append(log, Req("updateRef", ok /\ heads[Source] = loc.parent))
       /\ IF ok /\ heads[Source] = loc.parent
            THEN /\ heads' = [heads EXCEPT ![Source] = loc.newCommit]
                 /\ pc' = "prSearch"
                 /\ UNCHANGED result
            ELSE Throw("RequestError") /\ UNCHANGED heads
  /\ UNCHANGED <<commits, prs, hostUnique, frame, prov, run, opts, loc, calls, pre>>

(* providers/bitbucket.ts commitChanges *)

\* variant: one request and one commit per entry of the change map
CommitFormPerFile ==
  /\ impl = "omnipr" /\ pc = "commitForm"
  /\ heads[Source] # 0
  /\ log' = log \o [k \in 1..Len(loc.changes) |-> Req("commit", TRUE)]
  /\ commits' = commits \o [k \in 1..Len(loc.changes) |->
                   [tree |-> Layer(SrvTree(Source), SubSeq(loc.changes, 1, k), 1),
                    parent |-> IF k = 1 THEN heads[Source] ELSE Len(commits) + k - 1]]
  /\ heads' = [heads EXCEPT ![Source] = Len(commits) + Len(loc.changes)]
  /\ pc' = "prSearch"
  /\ UNCHANGED <<prs, hostUnique, frame, prov, run, opts, loc, calls, result, pre>>

\* POST /src with one form: a field per written file, 'files' per deleted one
CommitForm ==
  /\ impl = "omnipr" /\ pc = "commitForm"
  /\ \E ok \in BOOLEAN :
       LET written == ok /\ heads[Source] # 0
       IN /\ log' = Append(log, Req("commit", written))
          /\ IF written
               THEN /\ commits' = Append(commits,
                                     [tree |-> Layer(SrvTree(Source), loc.changes, 1),
                                      parent |-> heads[Source]])
                    /\ heads' = [heads EXCEPT ![Source] = Len(commits) + 1]
                    /\ pc' = "prSearch"
                    /\ UNCHANGED result
               ELSE Throw("RequestError") /\ UNCHANGED <<commits, heads>>
  /\ UNCHANGED <<prs, hostUnique, frame, prov, run, opts, loc, calls, pre>>

(* GitlabProvider.commitChanges over the Provider interface *)

\* the action of one entry: delete for null, else by whether the file is there
ProbedAction(e, content) ==
  IF e.del THEN "delete"
  ELSE IF content.def THEN "update"
  ELSE "create"

\* Promise.all over the entries: getFileContent for every entry that is not null
CommitProbe ==
  /\ impl = "omnipr" /\ pc = "commitProbe"
  /\ LET actions == [k \in 1..Len(loc.changes) |->
                       [path |-> loc.changes[k].path, del |-> loc.changes[k].del,
                        c |-> loc.changes[k].c,
                        action |-> ProbedAction(loc.changes[k],
                                     SrvFileContent(Source, loc.changes[k].path))]]
     IN IF \A k \in 1..Len(loc.changes) : loc.changes[k].del
          THEN /\ loc' = [loc EXCEPT !.changes = actions]
               /\ pc' = "commitActions"
               /\ UNCHANGED <<log, result>>
          ELSE \E ok \in BOOLEAN :
                 /\ log' = Append(log, Req("getFileContent", ok))
                 /\ IF ok THEN /\ loc' = [loc EXCEPT !.changes = actions]
                               /\ pc' = "commitActions"
                               /\ UNCHANGED result
                         ELSE Throw("RequestError") /\ UNCHANGED loc
  /\ UNCHANGED <<remote, frame, prov, run, opts, calls, pre>>

\* POST /repository/commits with the action list
CommitActions ==
  /\ impl = "omnipr" /\ pc = "commitActions"
  /\ \E ok \in BOOLEAN :
       LET rejected == ok /\ heads[Source] # 0
                          /\ ~SrvActionsAccepted(SrvTree(Source), loc.changes)
           written == ok /\ heads[Source] # 0 /\ ~rejected
       IN /\ log' = Append(log, Req("commit", written))
          /\ IF written
               THEN /\ commits' = Append(commits,
                                     [tree |-> Layer(SrvTree(Source), loc.changes, 1),
                                      parent |-> heads[Source]])
                    /\ heads' = [heads EXCEPT ![Source] = Len(commits) + 1]
                    /\ pc' = "prSearch"
                    /\ UNCHANGED <<result, loc>>
               ELSE /\ Throw("RequestError")
                    /\ loc' = [loc EXCEPT !.rejected = rejected]
                    /\ UNCHANGED <<commits, heads>>
  /\ UNCHANGED <<prs, hostUnique, frame, prov, run, opts, calls, pre>>

(* providers/github.ts createPullRequest *)

\* variant: create without looking at the search result
AfterPrSearchAlwaysCreate(existingPRs) == "prCreate"

\* if (existingPRs.length > 0) update existingPRs[0] else create
AfterPrSearch(existingPRs) ==
  IF Len(existingPRs) > 0 THEN "prUpdate" ELSE "prCreate"

\* GET /pulls?state=open&head=..&base=..
PrSearch ==
  /\ impl = "omnipr" /\ pc = "prSearch"
  /\ \E ok \in BOOLEAN :
       /\ log' = Append(log, Req("searchPR", ok))
       /\ IF ok THEN LET existingPRs == SrvOpenPRs(Source, Target)
                     IN /\ loc' = [loc EXCEPT !.prId =
                                     IF Len(existingPRs) > 0 THEN existingPRs[1] ELSE 0]
                        /\ pc' = AfterPrSearch(existingPRs)
                        /\ UNCHANGED result
               ELSE Throw("RequestError") /\ UNCHANGED loc
  /\ UNCHANGED <<remote, frame, prov, run, opts, calls, pre>>

\* variant: the update sends the title and leaves the body out
PrUpdateTitleOnly ==
  /\ impl = "omnipr" /\ pc = "prUpdate"
  /\ log' = Append(log, Req("updatePR", TRUE))
  /\ prs' = [prs EXCEPT ![loc.prId].title = opts.title]
  /\ pc' = "done"
  /\ result' = Ok(loc.prId)
  /\ UNCHANGED <<heads, commits, hostUnique, frame, prov, run, opts, loc, calls, pre>>

\* PATCH /pulls/{number} with title and body
PrUpdate ==
  /\ impl = "omnipr" /\ pc = "prUpdate"
  /\ \E ok \in BOOLEAN :
       /\ log' = Append(log, Req("updatePR", ok))
       /\ IF ok THEN /\ prs' = [prs EXCEPT ![loc.prId].title = opts.title,
                                           ![loc.prId].desc = opts.desc]
                     /\ pc' = "done"
                     /\ result' = Ok(loc.prId)
               ELSE Throw("RequestError") /\ UNCHANGED prs
  /\ UNCHANGED <<heads, commits, hostUnique, frame, prov, run, opts, loc, calls, pre>>

\* POST /pulls with title, body, head, base
PrCreate ==
  /\ impl = "omnipr" /\ pc = "prCreate"
  /\ \E ok \in BOOLEAN :
       /\ log' = Append(log, Req("createPR", ok /\ SrvCanCreatePR(Source, Target)))
       /\ IF ok /\ SrvCanCreatePR(Source, Target)
            THEN /\ prs' = Append(prs, PR(Source, Target, opts.title, opts.desc))
                 /\ pc' = "done"
                 /\ result' = Ok(Len(prs) + 1)
            ELSE Throw("RequestError") /\ UNCHANGED prs
  /\ UNCHANGED <<heads, commits, hostUnique, frame, prov, run, opts, loc, calls, pre>>

NextOmni ==
  \/ CreatePrStart
  \/ CreatePullRequestStart
  \/ GetTargetSha
  \/ GetSourceSha
  \/ DeleteBranch
  \/ CreateBranch
  \/ ResolveChange
  \/ CommitGetBranch
  \/ CommitBlobs
  \/ CommitTree
  \/ CommitObject
  \/ CommitRef
  \/ CommitForm
  \/ CommitProbe
  \/ CommitActions
  \/ PrSearch
  \/ PrUpdate
  \/ PrCreate

----------------------------------------------------------------------------
(* pull-request.ts pullRequest over a GitProvider instance:                *)
(* providers/gitlab.ts and the legacy Bitbucket provider                   *)

Legacy == impl \in {"gitlab", "bitbucket"}

PullRequestStart ==
  /\ Legacy
  /\ Begin("lSetup", ReconcileOpts("pullRequest"))

\* provider.setup: gitlab looks its project up, bitbucket only builds its client
Setup ==
  /\ Legacy /\ pc = "lSetup"
  /\ IF impl = "gitlab"
       THEN \E ok \in BOOLEAN :
              /\ log' = Append(log, Req("getProjects", ok))
              /\ IF ok THEN pc' = "lGetTarget" /\ UNCHANGED result
                       ELSE Throw("SetupFailed")
       ELSE pc' = "lGetTarget" /\ UNCHANGED <<log, result>>
  /\ UNCHANGED <<remote, frame, prov, run, opts, loc, calls, pre>>

\* private getBranch: any failure of the request gives undefined
LegacyGetBranch(b, ok) == IF ok THEN heads[b] ELSE 0

\* this.targetBranch = await this.getBranch(options.targetBranch)
PrepareGetTarget ==
  /\ Legacy /\ pc = "lGetTarget"
  /\ \E ok \in BOOLEAN :
       /\ log' = Append(log, Req("getBranch", ok))
       /\ prov' = [prov EXCEPT !.target = LegacyGetBranch(Target, ok)]
  /\ pc' = "lGetSource"
  /\ UNCHANGED <<remote, frame, run, opts, loc, calls, result, pre>>

\* the branch of prepareBranches taken after the source lookup
LegacyAfterSourceLookup(sourceBranch, reset) ==
  IF sourceBranch # 0 /\ reset THEN "lDelete"
  ELSE IF sourceBranch # 0 THEN "lTree"
  ELSE "lCreate"

\* const sourceBranch = await this.getBranch(options.sourceBranch)
PrepareGetSource ==
  /\ Legacy /\ pc = "lGetSource"
  /\ \E ok \in BOOLEAN :
       LET sourceBranch == LegacyGetBranch(Source, ok)
       IN /\ log' = Append(log, Req("getBranch", ok))
          /\ loc' = [loc EXCEPT !.sourceSha = sourceBranch]
          /\ pc' = LegacyAfterSourceLookup(sourceBranch, opts.reset)
          /\ prov' = IF sourceBranch # 0 /\ opts.reset
                       THEN prov
                       ELSE [prov EXCEPT !.source = sourceBranch]
  /\ UNCHANGED <<remote, frame, run, opts, calls, result, pre>>

\* deleteSourceBranch: a failure is caught and answered with false
PrepareDelete ==
  /\ Legacy /\ pc = "lDelete"
  /\ \E ok \in BOOLEAN :
       LET deleted == ok /\ heads[Source] # 0
       IN /\ log' = Append(log, Req("deleteBranch", deleted))
          /\ heads' = IF deleted THEN [heads EXCEPT ![Source] = 0] ELSE heads
          /\ prov' = IF deleted /\ impl = "bitbucket"
                       THEN [prov EXCEPT !.source = 0] ELSE prov
  /\ pc' = "lCreate"
  /\ UNCHANGED <<commits, prs, hostUnique, frame, run, opts, loc, calls, result, pre>>

\* where prepareBranches goes after createSourceBranch, and what it keeps
AfterLegacyCreate(created) ==
  IF impl = "gitlab" /\ loc.sourceSha # 0 /\ opts.reset
    THEN /\ prov' = [prov EXCEPT !.source = created]
         /\ pc' = "lTree"
    ELSE /\ pc' = "lRefetch"
         /\ UNCHANGED prov

\* createSourceBranch: a failure is caught; with this.targetBranch undefined the
\* request is never built
PrepareCreate ==
  /\ Legacy /\ pc = "lCreate"
  /\ IF prov.target = 0
       THEN /\ AfterLegacyCreate(0)
            /\ UNCHANGED <<log, heads>>
       ELSE \E ok \in BOOLEAN :
              LET from == IF impl = "gitlab" THEN heads[Target] ELSE prov.target
                  created == ok /\ heads[Source] = 0 /\ from # 0
              IN /\ log' = Append(log, Req("createBranch", created))
                 /\ heads' = IF created THEN [heads EXCEPT ![Source] = from] ELSE heads
                 /\ AfterLegacyCreate(IF created THEN from ELSE 0)
  /\ UNCHANGED <<commits, prs, hostUnique, frame, run, opts, loc, calls, result, pre>>

\* this.sourceBranch = await this.getBranch(options.sourceBranch); return true
PrepareRefetch ==
  /\ Legacy /\ pc = "lRefetch"
  /\ \E ok \in BOOLEAN :
       /\ log' = Append(log, Req("getBranch", ok))
       /\ prov' = [prov EXCEPT !.source = LegacyGetBranch(Source, ok)]
  /\ pc' = "lTree"
  /\ UNCHANGED <<remote, frame, run, opts, loc, calls, result, pre>>

ChangedPaths(changes) == { changes[k].path : k \in 1..Len(changes) }

\* [path, file].join('/') when options.path is given
Scoped(file) == IF basePath = "" THEN file ELSE basePath \o "/" \o file

\* filesToPick
FilesToPick(changes) == { Scoped(f) : f \in ChangedPaths(changes) }

\* getFilesFromSourceBranch: the listing, filtered to blobs named in the change map
ReadTree ==
  /\ Legacy /\ pc = "lTree"
  /\ IF prov.source = 0
       THEN Throw("TypeError") /\ UNCHANGED <<log, loc>>
       ELSE \E ok \in BOOLEAN :
              LET listed == ok /\ heads[Source] # 0
              IN /\ log' = Append(log, Req("listTree", listed))
                 /\ IF listed
                      THEN /\ loc' = [loc EXCEPT !.picked =
                                        { p \in FilesToPick(opts.changes) : SrvTree(Source)[p].ex }]
                           /\ pc' = "lFiles"
                           /\ UNCHANGED result
                      ELSE Throw("RequestError") /\ UNCHANGED loc
  /\ UNCHANGED <<remote, frame, prov, run, opts, calls, pre>>

\* getFilesFromSourceBranch: Promise.all of the raw content of every picked file
ReadFiles ==
  /\ Legacy /\ pc = "lFiles"
  /\ IF loc.picked = {}
       THEN pc' = "lWrite" /\ UNCHANGED <<log, loc, result>>
       ELSE \E ok \in BOOLEAN :
              /\ log' = Append(log, Req("getFileContent", ok))
              /\ IF ok
                   THEN /\ loc' = [loc EXCEPT !.existing =
                                     [p \in Paths |-> IF p \in loc.picked
                                                        THEN SrvFileContent(Source, p)
                                                        ELSE Undefined]]
                        /\ pc' = "lWrite"
                        /\ UNCHANGED result
                   ELSE Throw("RequestError") /\ UNCHANGED loc
  /\ UNCHANGED <<remote, frame, prov, run, opts, calls, pre>>

\* JS truthiness of string | undefined
Truthy(x) == x.def /\ x.v # ""

\* the argument writeChanges hands to a callback
LegacyResolverArg(file, existingFiles) ==
  [exists |-> Truthy(existingFiles[file]),
   path |-> file,
   contents |-> existingFiles[file]]

\* the callback arguments of a change map, in insertion order
RECURSIVE LegacyCalls(_, _, _)
LegacyCalls(changes, existingFiles, k) ==
  IF k > Len(changes) THEN <<>>
  ELSE IF changes[k].change.kind = "fn"
         THEN <<LegacyResolverArg(changes[k].path, existingFiles)>>
                \o LegacyCalls(changes, existingFiles, k + 1)
         ELSE LegacyCalls(changes, existingFiles, k + 1)

\* fileContent of one entry: the literal, or the callback's answer
LegacyContent(e, existingFiles) ==
  IF e.change.kind = "fn"
    THEN ApplyResolver(e.change.v, LegacyResolverArg(e.path, existingFiles))
    ELSE [del |-> e.change.kind = "null", c |-> e.change.v]

\* gitlab's action for one entry
LegacyAction(fileContent, file, existingFiles) ==
  IF fileContent.del THEN "delete"
  ELSE IF ~Truthy(existingFiles[file]) THEN "create"
  ELSE "update"

\* the commit's entries, in insertion order
RECURSIVE LegacyActions(_, _, _)
LegacyActions(changes, existingFiles, k) ==
  IF k > Len(changes) THEN <<>>
  ELSE LET fc == LegacyContent(changes[k], existingFiles)
       IN << [path |-> changes[k].path, del |-> fc.del, c |-> fc.c,
              action |-> LegacyAction(fc, changes[k].path, existingFiles)] >>
            \o LegacyActions(changes, existingFiles, k + 1)

\* writeChanges: the loop over the change map, which runs the callbacks
WriteChangesResolve ==
  /\ Legacy /\ pc = "lWrite"
  /\ calls' = LegacyCalls(opts.changes, loc.existing, 1)
  /\ loc' = [loc EXCEPT !.changes = LegacyActions(opts.changes, loc.existing, 1)]
  /\ pc' = "lCommit"
  /\ UNCHANGED <<remote, frame, prov, run, opts, log, result, pre>>

\* variant: the answer of the commit request is ignored
WriteChangesCommitIgnored ==
  /\ Legacy /\ pc = "lCommit"
  /\ log' = Append(log, Req("commit", FALSE))
  /\ pc' = "lPrCreate"
  /\ result' = Ok(0)
  /\ UNCHANGED <<remote, frame, prov, run, opts, loc, calls, pre>>

\* writeChanges: the commit request, and what pullRequest makes of the answer:
\* gitlab answers false or nothing, bitbucket false or true
WriteChangesCommit ==
  /\ Legacy /\ pc = "lCommit"
  /\ LET actions == loc.changes
     IN /\ UNCHANGED <<calls, loc>>
        /\ \E ok \in BOOLEAN :
             LET written == /\ ok
                            /\ heads[Source] # 0
                            /\ impl = "gitlab" => SrvActionsAccepted(SrvTree(Source), actions)
             IN /\ log' = Append(log, Req("commit", written))
                /\ IF written
                     THEN /\ commits' = Append(commits,
                                          [tree |-> Layer(SrvTree(Source), actions, 1),
                                           parent |-> heads[Source]])
                          /\ heads' = [heads EXCEPT ![Source] = Len(commits) + 1]
                     ELSE UNCHANGED <<commits, heads>>
                /\ IF written /\ impl = "bitbucket"
                     THEN pc' = "lPrCreate" /\ result' = Ok(0)
                     ELSE Throw("CouldntWriteChanges")
  /\ UNCHANGED <<prs, hostUnique, frame, prov, run, opts, pre>>

\* bitbucket createPullRequest, which pullRequest does not await: a failure, and
\* an undefined this.targetBranch before the request is built, is caught and
\* answered with false
LegacyCreatePullRequest ==
  /\ impl = "bitbucket" /\ pc = "lPrCreate"
  /\ IF prov.source = 0 \/ prov.target = 0
       THEN UNCHANGED <<log, prs>>
       ELSE \E ok \in BOOLEAN :
              LET created == ok /\ SrvCanCreatePR(Source, Target)
              IN /\ log' = Append(log, Req("createPR", created))
                 /\ prs' = IF created
                             THEN Append(prs, PR(Source, Target, opts.title, opts.desc))
                             ELSE prs
  /\ pc' = "done"
  /\ UNCHANGED <<heads, commits, hostUnique, frame, prov, run, opts, loc, calls, result, pre>>

(* providers/gitlab.ts createPullRequest, called on a prepared provider *)

GitlabCreatePullRequestStart ==
  /\ impl = "gitlab"
  /\ Begin("gCreate", PullRequestOpts("createPullRequest"))

\* POST merge_requests; on a failure the merge request number is read from the
\* message of the response
GitlabPrCreate ==
  /\ impl = "gitlab" /\ pc = "gCreate"
  /\ IF prov.source = 0 \/ prov.target = 0
       THEN Throw("TypeError") /\ UNCHANGED <<log, loc, prs>>
       ELSE \E ok \in BOOLEAN :
              LET created == ok /\ SrvCanCreatePR(Source, Target)
                  conflict == ok /\ ~SrvCanCreatePR(Source, Target)
              IN /\ log' = Append(log, Req("createPR", created))
                 /\ IF created
                      THEN /\ prs' = Append(prs, PR(Source, Target, opts.title, opts.desc))
                           /\ pc' = "done"
                           /\ result' = Ok(0)
                           /\ UNCHANGED loc
                      ELSE /\ loc' = [loc EXCEPT !.conflict = conflict,
                                        !.prId = IF conflict
                                                   THEN SrvOpenPRs(Source, Target)[1] ELSE 0]
                           /\ pc' = "gUpdate"
                           /\ UNCHANGED <<prs, result>>
  /\ UNCHANGED <<heads, commits, hostUnique, frame, prov, run, opts, calls, pre>>

\* PUT merge_requests/{mrNumber}; its failure is not caught
GitlabPrUpdate ==
  /\ impl = "gitlab" /\ pc = "gUpdate"
  /\ \E ok \in BOOLEAN :
       LET updated == ok /\ loc.prId # 0
       IN /\ log' = Append(log, Req("updatePR", updated))
          /\ IF updated
               THEN /\ prs' = [prs EXCEPT ![loc.prId].title = opts.title,
                                          ![loc.prId].desc = opts.desc]
                    /\ pc' = "done"
                    /\ result' = Ok(0)
               ELSE Throw("RequestError") /\ UNCHANGED prs
  /\ UNCHANGED <<heads, commits, hostUnique, frame, prov, run, opts, loc, calls, pre>>

NextLegacy ==
  \/ PullRequestStart
  \/ Setup
  \/ PrepareGetTarget
  \/ PrepareGetSource
  \/ PrepareDelete
  \/ PrepareCreate
  \/ PrepareRefetch
  \/ ReadTree
  \/ ReadFiles
  \/ WriteChangesResolve
  \/ WriteChangesCommit
  \/ LegacyCreatePullRequest
  \/ GitlabCreatePullRequestStart
  \/ GitlabPrCreate
  \/ GitlabPrUpdate

----------------------------------------------------------------------------
(* GithubProvider.createPullRequest of the GitProvider generation that     *)
(* throws OmniPRError: create first, look the pull request up on failure   *)

GithubCreatePullRequestStart ==
  /\ impl = "github"
  /\ Begin("bCreate", PullRequestOpts("createPullRequest"))

\* POST pulls; whatever the failure, the catch handler searches
GithubPrCreate ==
  /\ impl = "github" /\ pc = "bCreate"
  /\ \E ok \in BOOLEAN :
       LET created == ok /\ SrvCanCreatePR(Source, Target)
       IN /\ log' = Append(log, Req("createPR", created))
          /\ IF created
               THEN /\ prs' = Append(prs, PR(Source, Target, opts.title, opts.desc))
                    /\ pc' = "done"
                    /\ result' = Ok(Len(prs) + 1)
                    /\ UNCHANGED loc
               ELSE /\ loc' = [loc EXCEPT !.conflict = ok]
                    /\ pc' = "bSearch"
                    /\ UNCHANGED <<prs, result>>
  /\ UNCHANGED <<heads, commits, hostUnique, frame, prov, run, opts, calls, pre>>

\* pullRequests.find((pr) => pr.base.ref === options.targetBranch && pr.head.ref)
RECURSIVE GithubFind(_, _)
GithubFind(pullRequests, k) ==
  IF k > Len(pullRequests) THEN 0
  ELSE IF prs[pullRequests[k]].target = Target /\ prs[pullRequests[k]].source # ""
         THEN pullRequests[k]
         ELSE GithubFind(pullRequests, k + 1)

\* GET pulls with head and base; the pull request found is returned as it is
GithubPrSearch ==
  /\ impl = "github" /\ pc = "bSearch"
  /\ \E ok \in BOOLEAN :
       /\ log' = Append(log, Req("searchPR", ok))
       /\ IF ~ok THEN Throw("CouldntCreatePullRequest") /\ UNCHANGED loc
          ELSE LET pullRequest == GithubFind(SrvOpenPRs(Source, Target), 1)
               IN IF pullRequest = 0
                    THEN Throw("TypeError") /\ UNCHANGED loc
                    ELSE /\ loc' = [loc EXCEPT !.prId = pullRequest]
                         /\ pc' = "done"
                         /\ result' = Ok(pullRequest)
  /\ UNCHANGED <<remote, frame, prov, run, opts, calls, pre>>

NextGithub ==
  \/ GithubCreatePullRequestStart
  \/ GithubPrCreate
  \/ GithubPrSearch

Next == NextOmni \/ NextLegacy \/ NextGithub

Spec == Init /\ [][Next]_vars

SpecScope == InitScope /\ [][Next]_vars

----------------------------------------------------------------------------
(* Setup: GithubProvider.setup and the constructor of providers/github.ts *)

MaxUrlLen == 4

\* a url string: 'https://host' or nothing, followed by rest
Urls ==
  [origin : BOOLEAN,
   rest : UNION { [1..k -> {"/", "o"}] : k \in 0..MaxUrlLen }]

\* the auth argument: undefined, or {url?, token?}
Auths ==
  { [auth |-> FALSE, url |-> Undefined, token |-> FALSE] }
    \cup { [auth |-> TRUE, url |-> u, token |-> t] :
              u \in {Undefined} \cup { Defined(x) : x \in Urls }, t \in BOOLEAN }

\* String.prototype.indexOf(c, i), Len(s) + 1 when there is none
RECURSIVE IndexOf(_, _, _)
IndexOf(s, c, i) ==
  IF i > Len(s) THEN Len(s) + 1
  ELSE IF s[i] = c THEN i
  ELSE IndexOf(s, c, i + 1)

\* String.prototype.split('/')
RECURSIVE Split(_)
Split(s) ==
  LET i == IndexOf(s, "/", 1)
  IN IF i > Len(s) THEN <<s>>
     ELSE <<SubSeq(s, 1, i - 1)>> \o Split(SubSeq(s, i + 1, Len(s)))

\* the string from its first '/' on
FromSlash(s) ==
  LET i == IndexOf(s, "/", 1)
  IN IF i > Len(s) THEN <<>> ELSE SubSeq(s, i, Len(s))

\* new URL(url).pathname: what follows the host, '/' when nothing does
Pathname(url) ==
  IF FromSlash(url.rest) = <<>> THEN <<"/">> ELSE FromSlash(url.rest)

\* parseUrl(url).path: what follows the authority, where '//' opens one
ParsedPath(url) ==
  IF url.origin THEN FromSlash(url.rest)
  ELSE IF Len(url.rest) >= 2 /\ url.rest[1] = "/" /\ url.rest[2] = "/"
         THEN FromSlash(SubSeq(url.rest, 3, Len(url.rest)))
  ELSE url.rest

\* path.replace(/^\/|\/$/g, '')
StripSlashes(path) ==
  LET a == IF Len(path) > 0 /\ path[1] = "/" THEN Tail(path) ELSE path
  IN IF Len(a) > 0 /\ a[Len(a)] = "/" THEN SubSeq(a, 1, Len(a) - 1) ELSE a

\* const [owner, repo] = segments
Segment(segments, k) ==
  IF k <= Len(segments) THEN [def |-> TRUE, v |-> segments[k]]
  ELSE [def |-> FALSE, v |-> <<>>]

\* !auth.url
NoUrl(auth) == ~auth.url.def \/ (~auth.url.v.origin /\ auth.url.v.rest = <<>>)

InitSetup ==
  /\ commits = InitCommits
  /\ heads = [b \in BranchNames |-> IF b = Target THEN 1 ELSE 0]
  /\ prs = <<>>
  /\ hostUnique = TRUE
  /\ impl \in {"github", "omnipr"}
  /\ provider = IF impl = "omnipr" THEN "github" ELSE "none"
  /\ basePath = ""
  /\ fnIn \in Auths
  /\ fnOut = [owner |-> Segment(<<>>, 1), repo |-> Segment(<<>>, 2)]
  /\ prov = [source |-> 0, target |-> 0]
  /\ run = 0
  /\ opts = NoOpts
  /\ pc = "setup"
  /\ loc = LocInit
  /\ log = <<>>
  /\ calls = <<>>
  /\ result = NoResult
  /\ pre = [heads |-> heads, prs |-> prs, ncommits |-> Len(commits),
            call |-> "none", link |-> 0, stoppedAfterDelete |-> FALSE]

\* GithubProvider.setup(auth)
GithubSetup ==
  /\ impl = "github" /\ pc = "setup"
  /\ IF ~fnIn.auth \/ NoUrl(fnIn) \/ ~fnIn.token
       THEN Throw("CouldntSetupConnection") /\ UNCHANGED fnOut
       ELSE IF ~fnIn.url.v.origin
              THEN Throw("TypeError") /\ UNCHANGED fnOut
              ELSE LET segments == Tail(Split(Pathname(fnIn.url.v)))
                   IN /\ fnOut' = [owner |-> Segment(segments, 1),
                                   repo |-> Segment(segments, 2)]
                      /\ pc' = "ready"
                      /\ result' = Ok(0)
  /\ UNCHANGED <<remote, impl, provider, basePath, fnIn, prov, run, opts, loc, log, calls, pre>>

\* new GithubProvider(config)
GithubConstruct ==
  /\ impl = "omnipr" /\ pc = "setup"
  /\ IF ~fnIn.auth \/ ~fnIn.url.def
       THEN Throw("TypeError") /\ UNCHANGED fnOut
       ELSE LET segments == Split(StripSlashes(ParsedPath(fnIn.url.v)))
            IN /\ fnOut' = [owner |-> Segment(segments, 1),
                            repo |-> Segment(segments, 2)]
               /\ pc' = "ready"
               /\ result' = Ok(0)
  /\ UNCHANGED <<remote, impl, provider, basePath, fnIn, prov, run, opts, loc, log, calls, pre>>

\* the first request of the stage that follows: GET of a branch under
\* repos/${owner}/${repo}
FirstRequest ==
  /\ pc = "ready"
  /\ \E ok \in BOOLEAN : log' = Append(log, Req("getBranch", ok))
  /\ pc' = "requested"
  /\ UNCHANGED <<remote, frame, prov, run, opts, loc, calls, result, pre>>

NextSetup ==
  \/ GithubSetup
  \/ GithubConstruct
  \/ FirstRequest

SpecSetup == InitSetup /\ [][NextSetup]_vars

----------------------------------------------------------------------------
(* pull: the provider's listing of a branch under a directory *)

\* the blobs a branch may hold: a, d/a, d/d/a, da
PullFiles ==
  { <<"a">>, <<"d", "/", "a">>, <<"d", "/", "d", "/", "a">>, <<"d", "a">> }

\* the path argument: './' (the default), '.', '', 'd', 'd/', '/d', 'd/d'
PullPaths ==
  { <<".", "/">>, <<".">>, <<>>, <<"d">>, <<"d", "/">>, <<"/", "d">>,
    <<"d", "/", "d">> }

\* path.replace(/\\\\/g, "/"): every pair of backslashes becomes a slash
RECURSIVE ReplaceBackslashes(_)
ReplaceBackslashes(path) ==
  IF Len(path) < 2 THEN path
  ELSE IF path[1] = "\\" /\ path[2] = "\\"
         THEN <<"/">> \o ReplaceBackslashes(SubSeq(path, 3, Len(path)))
  ELSE <<path[1]>> \o ReplaceBackslashes(Tail(path))

normalizeDirectoryPath(path) ==
  LET replaced == ReplaceBackslashes(path)
      normalizedPath == IF replaced # <<"/">> THEN StripSlashes(replaced)
                        ELSE replaced
  IN IF normalizedPath = <<".">> THEN <<>> ELSE normalizedPath

\* String.prototype.startsWith
StartsWith(s, prefix) ==
  Len(s) >= Len(prefix) /\ SubSeq(s, 1, Len(prefix)) = prefix

\* isMatch
IsMatch(fullPath, normalized) ==
  normalized = <<>> \/ StartsWith(fullPath, normalized \o <<"/">>)

\* relativePath: fullPath.substring(normalized.length + 1) under a directory
RelativePath(fullPath, normalized) ==
  IF normalized = <<>> THEN fullPath
  ELSE SubSeq(fullPath, Len(normalized) + 2, Len(fullPath))

\* relativePath.includes('/')
IncludesSlash(s) == IndexOf(s, "/", 1) <= Len(s)

\* the loop over the listed blobs: relative path -> content, the content of a
\* file being told by its full path
FilesToFetch(entries, normalized, recursive) ==
  { [rel |-> RelativePath(f, normalized), content |-> f] :
      f \in { e \in entries :
                /\ IsMatch(e, normalized)
                /\ recursive \/ ~IncludesSlash(RelativePath(e, normalized)) } }

\* the order in which the host lists the blobs
PullOrder ==
  << <<"a">>, <<"d", "/", "a">>, <<"d", "/", "d", "/", "a">>, <<"d", "a">> >>

\* one answer of a listing: the first fnIn.limit entries, in the host's order
FirstPage(entries) ==
  { f \in entries :
      Cardinality({ g \in entries :
                      (CHOOSE k \in 1..Len(PullOrder) : PullOrder[k] = g)
                        < (CHOOSE k \in 1..Len(PullOrder) : PullOrder[k] = f) })
        < fnIn.limit }

\* while (nextUrl): the entries of every page
RECURSIVE AllPages(_)
AllPages(entries) ==
  IF entries = {} THEN {}
  ELSE FirstPage(entries) \cup AllPages(entries \ FirstPage(entries))

\* GET /git/trees/{sha}?recursive=true: the blobs of the branch, cut off
\* (truncated: true) at the host's limit
SrvGitTree(tree) == FirstPage(tree)

\* GET /src/{branch}?pagelen=100 and every page.next: the files of the root
\* directory
SrvRootListing(tree) == AllPages({ f \in tree : ~IncludesSlash(f) })

\* GET /repository/tree?path=..&recursive=..&per_page=..: the first page of the
\* blobs under the directory, its direct children only unless recursive
SrvRepositoryTree(tree, path, recursive) ==
  FirstPage({ f \in tree :
                /\ IsMatch(f, path)
                /\ recursive \/ ~IncludesSlash(RelativePath(f, path)) })

\* the answer of the host to the content request of a file
ContentAnswer(f) == IF fnIn.fault.file = f THEN fnIn.fault.answer ELSE "ok"

\* the arguments of a read and the host it meets: pull(branch, path, recursive)
\* of a Provider, or getFilesFromSourceBranch({path, files}) of gitlab
PullInputs(limits) ==
  { i \in [tree : SUBSET PullFiles, path : PullPaths, recursive : BOOLEAN,
           files : { {}, {<<"a">>}, {<<"a">>, <<"d", "/", "a">>} },
           fault : [file : PullFiles \cup {<<>>}, answer : {"ok", "notFound", "error"}],
           limit : limits] :
      /\ i.fault.file \in i.tree \cup {<<>>}
      /\ i.fault.answer = "ok" <=> i.fault.file = <<>>
      /\ IF impl = "omnipr" THEN i.files = {}
         ELSE i.recursive /\ i.path \in {<<>>, <<"d">>} }

StartPull(limits) ==
  /\ commits = InitCommits
  /\ heads = [b \in BranchNames |-> 1]
  /\ prs = <<>>
  /\ hostUnique = TRUE
  /\ impl \in {"omnipr", "gitlab"}
  /\ provider \in (IF impl = "omnipr" THEN Providers ELSE {"none"})
  /\ basePath = ""
  /\ fnIn \in PullInputs(limits)
  /\ fnOut = {}
  /\ prov = [source |-> 0, target |-> 0]
  /\ run = 0
  /\ opts = NoOpts
  /\ pc = IF impl = "omnipr" THEN "pull" ELSE "read"
  /\ loc = LocInit
  /\ log = <<>>
  /\ calls = <<>>
  /\ result = NoResult
  /\ pre = [heads |-> heads, prs |-> prs, ncommits |-> Len(commits),
            call |-> "none", link |-> 0, stoppedAfterDelete |-> FALSE]

\* a host whose listing always fits one answer
InitPull == StartPull({Len(PullOrder)})

\* a host that answers a listing with one or two entries at a time
InitPaged == StartPull({1, 2})

\* the files pull selects from the listing, relative path -> content
Selection(p) ==
  LET normalized == normalizeDirectoryPath(fnIn.path)
  IN CASE p = "github" ->
            FilesToFetch(SrvGitTree(fnIn.tree), normalized, fnIn.recursive)
       [] p = "bitbucket" ->
            FilesToFetch(SrvRootListing(fnIn.tree), normalized, fnIn.recursive)
       [] p = "gitlab" ->
            { [rel |-> IF normalized # <<>> /\ StartsWith(f, normalized \o <<"/">>)
                         THEN RelativePath(f, normalized) ELSE f,
               content |-> f] :
                f \in SrvRepositoryTree(fnIn.tree, normalized, fnIn.recursive) }

PullAnswers == {"ok", "notFound", "error"}

\* variant: a content request answered 404 fails the whole read
PulledFailingOnMissing(answer, files) ==
  /\ log' = log \o << [op |-> "listTree", ok |-> answer = "ok", status |-> answer] >>
              \o (IF answer = "ok" /\ files # {}
                    THEN << Req("getFileContent",
                                \A e \in files : ContentAnswer(e.content) = "ok") >>
                    ELSE <<>>)
  /\ IF \/ answer = "error"
        \/ answer = "ok" /\ \E e \in files : ContentAnswer(e.content) # "ok"
       THEN Throw("RequestError") /\ UNCHANGED fnOut
       ELSE /\ fnOut' = IF answer = "ok" THEN files ELSE {}
            /\ pc' = "pulled"
            /\ result' = Ok(0)
  /\ UNCHANGED <<remote, impl, provider, basePath, fnIn, prov, run, opts, loc, calls, pre>>

\* what pull makes of the answers: the listing answered 404 gives {}, another
\* listing error throws; getFileContent gives undefined on a 404, which leaves
\* the file out, and throws on another error, which pull throws on
Pulled(answer, files) ==
  /\ log' = log \o << [op |-> "listTree", ok |-> answer = "ok", status |-> answer] >>
              \o (IF answer = "ok" /\ files # {}
                    THEN << Req("getFileContent",
                                \A e \in files : ContentAnswer(e.content) = "ok") >>
                    ELSE <<>>)
  /\ IF \/ answer = "error"
        \/ answer = "ok" /\ \E e \in files : ContentAnswer(e.content) = "error"
       THEN Throw("RequestError") /\ UNCHANGED fnOut
       ELSE /\ fnOut' = IF answer = "ok"
                          THEN { e \in files : ContentAnswer(e.content) = "ok" }
                          ELSE {}
            /\ pc' = "pulled"
            /\ result' = Ok(0)
  /\ UNCHANGED <<remote, impl, provider, basePath, fnIn, prov, run, opts, loc, calls, pre>>

\* providers/github.ts pull
GithubPull ==
  /\ provider = "github" /\ pc = "pull"
  /\ \E answer \in PullAnswers : Pulled(answer, Selection("github"))

\* providers/bitbucket.ts pull
BitbucketPull ==
  /\ provider = "bitbucket" /\ pc = "pull"
  /\ \E answer \in PullAnswers : Pulled(answer, Selection("bitbucket"))

\* GitlabProvider.pull: the host filters, the provider strips the prefix
GitlabPull ==
  /\ provider = "gitlab" /\ pc = "pull"
  /\ \E answer \in PullAnswers : Pulled(answer, Selection("gitlab"))

\* variant: the names are looked up as they are given
PickedNamesAsGiven(path, files) == files

\* filesToPick: the names joined to the path, when there is one
PickedNames(path, files) ==
  { IF path # <<>> THEN path \o <<"/">> \o f ELSE f : f \in files }

\* gitlab.ts getFilesFromSourceBranch({path, files}): the recursive listing
\* under the path, narrowed to the named files; any failed request throws
GitlabGetFiles ==
  /\ impl = "gitlab" /\ pc = "read"
  /\ \E answer \in {"ok", "error"} :
       LET tree == SrvRepositoryTree(fnIn.tree, fnIn.path, TRUE)
           pickedFiles == IF fnIn.files # {}
                            THEN tree \cap PickedNames(fnIn.path, fnIn.files)
                            ELSE tree
           read == answer = "ok" /\ \A f \in pickedFiles : ContentAnswer(f) = "ok"
       IN /\ log' = log \o << [op |-> "listTree", ok |-> answer = "ok", status |-> answer] >>
                       \o (IF answer = "ok" /\ pickedFiles # {}
                             THEN << Req("getFileContent", read) >> ELSE <<>>)
          /\ IF read
               THEN /\ fnOut' = { [rel |-> f, content |-> f] : f \in pickedFiles }
                    /\ pc' = "readDone"
                    /\ result' = Ok(0)
               ELSE Throw("RequestError") /\ UNCHANGED fnOut
  /\ UNCHANGED <<remote, impl, provider, basePath, fnIn, prov, run, opts, loc, calls, pre>>

NextPull ==
  \/ GithubPull
  \/ BitbucketPull
  \/ GitlabPull
  \/ GitlabGetFiles

SpecPull == InitPull /\ [][NextPull]_vars

SpecPaged == InitPaged /\ [][NextPull]_vars

----------------------------------------------------------------------------
(* Properties *)

Reconcile == opts.call \in {"createPr", "pullRequest"}

\* branch preparation has just returned to the reconcile
PrepDone ==
  \/ impl = "omnipr" /\ pc = "resolve" /\ loc.i = 1
  \/ Legacy /\ pc = "lTree"

\* the target head as the invocation resolved it
ResolvedTarget == IF impl = "omnipr" THEN loc.targetSha ELSE prov.target

Issued(ops) == \E k \in 1..Len(log) : log[k].op \in ops

Succeeded(op) == \E k \in 1..Len(log) : log[k] = Req(op, TRUE)

MutatingOps == {"deleteBranch", "createBranch", "createBlobs", "createTree",
                "createCommit", "updateRef", "commit", "createPR", "updatePR"}

C2_SecondCreatePrUpdates ==
  (/\ impl = "omnipr" /\ pc = "done"
   /\ opts.call = "createPr" /\ pre.call = "createPr" /\ pre.link # 0)
    => /\ SrvOpenPRs(Source, Target) = <<pre.link>>
       /\ Count("createPR") = 0
       /\ prs[pre.link].title = opts.title
       /\ prs[pre.link].desc = opts.desc
       /\ result = Ok(pre.link)

\* the first createPr created pull request 2, the second one ended on it
C2_Witness ==
  /\ impl = "omnipr" /\ pc = "done" /\ run = 2
  /\ opts.call = "createPr" /\ pre.call = "createPr"
  /\ prs[1].source = Other
  /\ pre.link = 2 /\ result.link = 2
  /\ prs[2].title = TitleOf(2)

\* C3: when the host rejects the create request because the pair has an open
\* pull request and the fallback requests are answered, createPullRequest ends
\* in success and the first open pull request of the pair carries the requested
\* title and description.
C3_ConflictUpdatesExisting ==
  (/\ impl \in {"gitlab", "github"} /\ opts.call = "createPullRequest"
   /\ pc \in {"done", "failed"}
   /\ loc.conflict
   /\ \A k \in 2..Len(log) : log[k].ok)
    => /\ result.status = "ok"
       /\ prs[SrvOpenPRs(Source, Target)[1]].title = opts.title
       /\ prs[SrvOpenPRs(Source, Target)[1]].desc = opts.desc

\* C4: when the create request fails and the fallback request fails too,
\* createPullRequest ends in the couldntCreatePullRequest error, and no call
\* issues more than the create request and one fallback request.
C4_FallbackFailureIsStructured ==
  (impl \in {"gitlab", "github"} /\ opts.call = "createPullRequest")
    => /\ Len(log) <= 2
       /\ (/\ pc \in {"done", "failed"}
           /\ Len(log) = 2 /\ ~log[1].ok /\ ~log[2].ok)
            => result = Err("CouldntCreatePullRequest")

\* C5: a reconcile started while the target branch is absent issues no mutating
\* request, does not end in success, and once the target lookup is answered
\* ends in the branch-not-found error.
C5_TargetAbsentFailsFirst ==
  (Reconcile /\ pre.heads[Target] = 0)
    => /\ ~Issued(MutatingOps)
       /\ pc # "done"
       /\ (pc = "failed" /\ Issued({"getBranch"})
             /\ \A k \in 1..Len(log) : log[k].ok)
            => result = Err("TargetNotFound")

C7_ResetYieldsTargetHead ==
  (Reconcile /\ opts.reset /\ loc.sourceSha # 0 /\ PrepDone)
    => /\ heads[Source] # 0
       /\ heads[Source] = ResolvedTarget

\* C8: a createPr that has deleted the source branch and not created it leaves
\* the branch absent; the next createPr, once its lookups are answered, finds
\* the source absent and issues no delete, and when its preparation returns it
\* has issued one create request and the source head is the target head.
C8_RecoveryAfterInterruptedReset ==
  impl = "omnipr" =>
    /\ StoppedAfterDelete => heads[Source] = 0
    /\ (/\ pre.stoppedAfterDelete /\ opts.call = "createPr"
        /\ Len(log) >= 2 /\ log[1].ok /\ log[2].ok)
         => /\ loc.sourceSha = 0
            /\ Count("deleteBranch") = 0
            /\ PrepDone => /\ Count("createBranch") = 1
                           /\ heads[Source] = loc.targetSha
                           /\ heads[Source] = heads[Target]

\* the invocation after an interrupted reset, with reset again, has prepared the branch
C8_Witness ==
  /\ impl = "omnipr" /\ pre.stoppedAfterDelete /\ pre.call = "createPr"
  /\ opts.call = "createPr" /\ opts.reset
  /\ PrepDone
  /\ heads[Source] = heads[Target]

RECURSIVE FnPaths(_, _)
FnPaths(changes, k) ==
  IF k > Len(changes) THEN <<>>
  ELSE IF changes[k].change.kind = "fn"
         THEN <<changes[k].path>> \o FnPaths(changes, k + 1)
         ELSE FnPaths(changes, k + 1)

\* what a callback on path p has to be given
ExpectedArg(p) ==
  [exists |-> SrvTree(Source)[p].ex,
   path |-> p,
   contents |-> Defined(IF SrvTree(Source)[p].ex THEN SrvTree(Source)[p].c ELSE "")]

\* the callbacks have run and the commit has not changed the branch yet
Resolving ==
  pc \in {"resolve", "commitGet", "commitBlobs", "commitTree", "commitObject",
          "commitRef", "lCommit"}

\* C10: the callbacks are called for the function-valued changes in order, each
\* with exists telling whether its path is on the source branch, contents the
\* stored content (the empty string included) or "" when the path is absent,
\* and path its path; every function-valued change has been called when the
\* commit starts.
C10_ResolverArguments ==
  (Reconcile /\ Resolving)
    => /\ Len(calls) <= Len(FnPaths(opts.changes, 1))
       /\ \A k \in 1..Len(calls) : calls[k] = ExpectedArg(FnPaths(opts.changes, 1)[k])
       /\ pc \in {"commitGet", "lCommit"} => Len(calls) = Len(FnPaths(opts.changes, 1))
\* the kind an action on entry e has to have on a branch with this tree
ExpectedAction(e, tree) ==
  IF e.del THEN "delete"
  ELSE IF ~tree[e.path].ex THEN "create"
  ELSE "update"

\* the action list of an atomic action-list commit is built and not yet sent
ActionsBuilt ==
  \/ impl = "gitlab" /\ pc = "lCommit"
  \/ impl = "omnipr" /\ provider = "gitlab" /\ pc = "commitActions"

\* C11: every action of an action list about to be sent has kind delete exactly
\* when its resolved content is null, kind create exactly when the content is
\* not null and the branch has no file at the path, and kind update otherwise.
C11_ActionKinds ==
  ActionsBuilt =>
    \A k \in 1..Len(loc.changes) :
       loc.changes[k].action = ExpectedAction(loc.changes[k], SrvTree(Source))

\* the change list of the reconcile is resolved and its commit not yet sent
WritesBuilt ==
  \/ impl = "omnipr" /\ pc \in {"commitGet", "commitForm", "commitProbe"}
  \/ Legacy /\ pc = "lCommit"

\* C12: under a base path, the k-th entry of the commit is written to the base
\* path joined with the k-th key of the change map, and every callback is told
\* exists and contents of the file at the base path joined with its key.
C12_ScopedWrites ==
  (Reconcile /\ basePath # "" /\ WritesBuilt) =>
     /\ \A k \in 1..Len(loc.changes) :
          loc.changes[k].path = Scoped(opts.changes[k].path)
     /\ \A k \in 1..Len(calls) :
          LET file == SrvTree(Source)[Scoped(FnPaths(opts.changes, 1)[k])]
          IN /\ calls[k].exists = file.ex
             /\ file.ex => calls[k].contents = Defined(file.c)

CommitOps == {"createBlobs", "createTree", "createCommit", "updateRef", "commit"}

PrOps == {"searchPR", "createPR", "updatePR"}

\* the commit stage of the reconcile has returned
CommitDone ==
  \/ impl = "omnipr" /\ opts.call = "createPr" /\ pc \in {"prSearch", "prUpdate", "prCreate", "done"}
  \/ impl = "omnipr" /\ opts.call = "createPr" /\ pc = "failed" /\ Issued(PrOps)

\* C13: a commit whose change map deletes a path that is not on the branch is
\* not failed for it: no commit request is rejected for deleting what is not
\* there, and when the commit stage has returned every entry of the map is
\* applied, the deleted paths being absent from the tree.
C13_DeleteOfAbsentIsNoOp ==
  (impl = "omnipr" /\ opts.call = "createPr")
    => /\ ~loc.rejected
       /\ CommitDone =>
            \A k \in 1..Len(loc.changes) :
               SrvTree(Source)[loc.changes[k].path] =
                 IF loc.changes[k].del THEN NoFile ELSE File(loc.changes[k].c)

\* the head of the source branch when preparation returned
PreparedHead == IF Succeeded("createBranch") THEN ResolvedTarget ELSE pre.heads[Source]

SourceKnown ==
  IF impl = "omnipr"
    THEN Succeeded("createBranch") \/ (loc.sourceSha # 0 /\ ~Succeeded("deleteBranch"))
    ELSE prov.source # 0

\* C15: in a reconcile a commit request is only issued once the source branch
\* is known to exist (and it exists) and every change is resolved; a pull
\* request request is only issued after a commit request succeeded; and no
\* request of an earlier stage follows a request of a later one.
C15_StagesInOrder ==
  Reconcile =>
    /\ Issued(CommitOps) => /\ SourceKnown
                            /\ heads[Source] # 0
                            /\ Len(loc.changes) = Len(opts.changes)
    /\ \A k \in 1..Len(log) :
         /\ log[k].op \in PrOps =>
              \E j \in 1..(k - 1) : log[j] \in {Req("updateRef", TRUE), Req("commit", TRUE)}
         /\ log[k].op \in {"createBranch", "deleteBranch"} =>
              \A j \in 1..(k - 1) : log[j].op \notin CommitOps \cup PrOps
         /\ log[k].op \in CommitOps =>
              \A j \in 1..(k - 1) : log[j].op \notin PrOps

\* a reconcile that reset the source branch, committed and reached the pull request
C15_Witness ==
  /\ Reconcile /\ pc = "done" /\ result.status = "ok"
  /\ Succeeded("deleteBranch") /\ Succeeded("createBranch")
  /\ Issued(CommitOps) /\ Succeeded("createPR")
AllAnswered == \A k \in 1..Len(log) : log[k].ok

Ended == pc \in {"done", "failed"}

\* C16: a reconcile on an existing target branch all of whose provider calls
\* succeeded ends in success with the link of the pair's pull request, and a
\* reconcile whose calls all succeeded and whose commit was made has not failed.
C16_AllCallsSucceedGivesPullRequest ==
  (Reconcile /\ pre.heads[Target] # 0 /\ AllAnswered)
    => /\ Ended => /\ pc = "done"
                   /\ result.status = "ok"
                   /\ result.link \in 1..Len(prs)
                   /\ prs[result.link].source = Source
                   /\ prs[result.link].target = Target
       /\ (Succeeded("commit") \/ Succeeded("updateRef")) => pc # "failed"

\* C17: in a reconcile a failed request of the commit stage ends the
\* invocation in an error delivered to its caller, and no pull request request
\* is issued in it.
C17_CommitFailurePropagates ==
  (Reconcile /\ \E k \in 1..Len(log) : log[k].op \in CommitOps /\ ~log[k].ok)
    => /\ pc = "failed"
       /\ result.status = "error"
       /\ ~Issued(PrOps)

\* the commit request of the legacy Bitbucket writeChanges failed and
\* pullRequest threw
C17_Witness ==
  /\ impl = "bitbucket" /\ Reconcile
  /\ \E k \in 1..Len(log) : log[k] = Req("commit", FALSE)
  /\ result = Err("CouldntWriteChanges")
  /\ ~Issued(PrOps)

\* the url is absolute and its path opens with an owner and a repository
NamesRepository(url) ==
  /\ url.origin
  /\ Len(Split(url.rest)) >= 3
  /\ Split(url.rest)[1] = <<>>
  /\ Split(url.rest)[2] # <<>>
  /\ Split(url.rest)[3] # <<>>

\* no auth, no token, no url, or a url that names no owner and repository
BadAuth(auth) ==
  \/ ~auth.auth
  \/ ~auth.token
  \/ ~auth.url.def
  \/ ~NamesRepository(auth.url.v)

\* C19: a setup given no auth, no token, no url or a url that names no owner
\* and repository has failed with the setup error, and no request of a later
\* stage is issued.
C19_BadAuthFailsSetup ==
  (pc \in {"failed", "ready", "requested"} /\ BadAuth(fnIn))
    => /\ result = Err("CouldntSetupConnection")
       /\ log = <<>>

\* a segment that names a directory or file
IsName(segment) == segment # <<>> /\ segment # <<".">>

\* the directory a scope path names, as its segments
ScopeDir(path) == SelectSeq(Split(path), IsName)

\* file f lies under the scope, at any depth or directly in it
InScope(f, path, recursive) ==
  /\ Len(Split(f)) > Len(ScopeDir(path))
  /\ SubSeq(Split(f), 1, Len(ScopeDir(path))) = ScopeDir(path)
  /\ recursive \/ Len(Split(f)) = Len(ScopeDir(path)) + 1

\* C20: a pull whose requests were answered returns a file exactly when the
\* branch holds it under the scope path and, unless recursive, it is a direct
\* child of the scope: its path relative to the scope has no '/'.
C20_PullScope ==
  (pc = "pulled" /\ AllAnswered)
    => \A f \in PullFiles :
         (\E e \in fnOut : e.content = f)
           <=> (f \in fnIn.tree /\ InScope(f, fnIn.path, fnIn.recursive))

\* C18: a reconcile in which a provider request failed, other than a commit
\* rejected for deleting an absent path, has ended in an error delivered to
\* its caller: it neither goes on nor ends in success.
C18_NoFailureSwallowed ==
  (Reconcile /\ ~AllAnswered /\ ~loc.rejected)
    => /\ pc = "failed"
       /\ result.status = "error"

\* file f is in the host's complete listing and passes the filter of pull
Matched(f) ==
  LET normalized == normalizeDirectoryPath(fnIn.path)
  IN /\ f \in fnIn.tree
     /\ provider = "bitbucket" => ~IncludesSlash(f)
     /\ IsMatch(f, normalized)
     /\ fnIn.recursive \/ ~IncludesSlash(RelativePath(f, normalized))

\* C21: when the host answers a listing in pages or cuts it off, a pull whose
\* requests were answered returns every matching file of every page.
C21_EveryPageRead ==
  (pc = "pulled" /\ AllAnswered)
    => \A f \in PullFiles : Matched(f) => \E e \in fnOut : e.content = f

\* the listing of a pull was answered with the given status
Listed(status) ==
  /\ impl = "omnipr"
  /\ pc \in {"pulled", "failed"}
  /\ log[1].status = status

NamedRead == impl = "gitlab" /\ pc = "readDone" /\ fnIn.files # {}

C24_KeysRelativeToScope ==
  (pc \in {"pulled", "readDone"})
    => \A e \in fnOut : Split(e.content) = ScopeDir(fnIn.path) \o Split(e.rel)

\* the tree of the source branch before its head was committed
TreeBefore ==
  IF commits[heads[Source]].parent = 0 THEN [p \in Paths |-> NoFile]
  ELSE commits[commits[heads[Source]].parent].tree

\* a commit request of the reconcile was accepted
Committed == Reconcile /\ (Succeeded("updateRef") \/ Succeeded("commit"))

ComposeOps == {"createBlobs", "createTree", "createCommit"}

\* commitChanges of GitHub has read the branch it commits to
Composing ==
  /\ impl = "omnipr" /\ provider = "github"
  /\ loc.parent # 0

\* C29: in the commit of GitHub the update of the branch ref is the last
\* request, issued only after the blobs, the tree and the commit object were
\* created; until it succeeds, and so whenever an earlier request failed, the
\* head and the tree of the branch are as the commit found them; and the tree
\* a successful commit leaves is the change map layered on the tree it found,
\* whatever earlier attempts left behind.
C29_RefMovedLast ==
  Composing =>
    /\ \A k \in 1..Len(log) :
         log[k].op = "updateRef" =>
           /\ k = Len(log) \/ log[k + 1].op \notin CommitOps
           /\ \E j \in 1..(k - 1) : log[j] = Req("createTree", TRUE)
           /\ \E j \in 1..(k - 1) : log[j] = Req("createCommit", TRUE)
           /\ \A j \in 1..(k - 1) : log[j].op \in ComposeOps => log[j].ok
    /\ ~Succeeded("updateRef") =>
         /\ heads[Source] = loc.parent
         /\ SrvTree(Source) = loc.baseTree
    /\ Succeeded("updateRef") =>
         SrvTree(Source) = Layer(loc.baseTree, loc.changes, 1)

\* a commit that failed after its objects were made, in the second run on the
\* same repository
C29_Witness ==
  /\ Composing
  /\ run = 2
  /\ pc = "failed"
  /\ \E k \in 1..Len(log) : log[k] = Req("updateRef", FALSE)
  /\ Len(commits) > pre.ncommits

\* a commit of GitHub in a second run, after the ref update of a first had failed
C29_Rerun ==
  /\ Composing
  /\ run = 2
  /\ Succeeded("updateRef")
  /\ Len(commits) > Len(InitCommits) + 1
  /\ pre.ncommits > Len(InitCommits)
  /\ pre.heads = [b \in BranchNames |-> IF b = Source THEN pre.heads[Source] ELSE 1]

----------------------------------------------------------------------------
(* The operations of a provider called one by one: createBranch,
   commitToBranch and getFromBranch of GithubProvider, and prepareBranches
   and writeChanges of the earlier github provider, which keeps the branches
   it prepared *)

MaxOps == 3

\* the change maps of the calls: names relative to options.path
ProviderChanges ==
  { << [path |-> "a", del |-> FALSE, c |-> "new"] >>,
    << [path |-> "a", del |-> FALSE, c |-> "new"], [path |-> "b", del |-> FALSE, c |-> ""] >>,
    << [path |-> "a", del |-> TRUE, c |-> ""] >> }

\* a call of the provider: createBranch(from, branch), commitToBranch or
\* writeChanges (changes), getFromBranch (scoped: with options.path)
Call(call, from, branch, changes, scoped) ==
  [call |-> call, from |-> from, branch |-> branch, changes |-> changes, scoped |-> scoped]

InitProvider ==
  /\ commits = InitCommits
  /\ heads \in { h \in [BranchNames -> 0..2] : h[Target] = 1 }
  /\ prs = <<>>
  /\ hostUnique = TRUE
  /\ impl \in {"github", "githubLegacy"}
  /\ provider = "none"
  /\ basePath \in {"", "dir"}
  /\ fnIn = <<>>
  /\ fnOut = {}
  /\ prov = [source |-> 0, target |-> 0]
  /\ run = 0
  /\ opts = Call("none", "", Source, <<>>, FALSE)
  /\ pc = "idle"
  /\ loc = LocInit
  /\ log = <<>>
  /\ calls = <<>>
  /\ result = NoResult
  /\ pre = [heads |-> heads, ncommits |-> Len(commits), last |-> opts]

\* a call starts: what the host holds at that moment, and the call before it
\* when that was a commit that succeeded
Called(o) ==
  /\ run < MaxOps
  /\ run' = run + 1
  /\ opts' = o
  /\ pre' = [heads |-> heads, ncommits |-> Len(commits),
             last |-> IF pc = "done" /\ opts.call = "commitToBranch"
                        THEN opts ELSE Call("none", "", Source, <<>>, FALSE)]
  /\ UNCHANGED <<prs, hostUnique, impl, provider, basePath, fnIn, loc, calls>>

\* the tree of the directory options.path names: its files by their names
\* relative to it
SubTree(tree) ==
  [p \in Paths |-> IF Scoped(p) \in Paths THEN tree[Scoped(p)] ELSE NoFile]

\* GET contents/{parent}: the answer lists the directory options.path names
DirListed(tree) == \E p \in Paths : Scoped(p) # p /\ Scoped(p) \in Paths /\ tree[Scoped(p)].ex

\* the entries of a tree request, each at path/file or at its name as given
TreeEntries(changes, joined) ==
  [k \in 1..Len(changes) |->
     [changes[k] EXCEPT !.path = IF joined THEN Scoped(changes[k].path)
                                  ELSE changes[k].path]]

\* variant: getBranch answers for a missing branch with the default branch
GithubCreateBranchFromDefault ==
  /\ impl = "github"
  /\ \E from \in BranchNames, name \in BranchNames, okGet \in BOOLEAN, okPost \in BOOLEAN :
       LET sha == IF heads[from] # 0 THEN heads[from] ELSE heads[Target]
           found == okGet
           created == found /\ okPost /\ heads[name] = 0
       IN /\ Called(Call("createBranch", from, name, <<>>, FALSE))
          /\ log' = << Req("getBranch", found) >>
                      \o (IF found THEN << Req("createBranch", created) >> ELSE <<>>)
          /\ heads' = IF created THEN [heads EXCEPT ![name] = sha] ELSE heads
          /\ result' = IF ~found THEN Err(<<"branchDoesNotExist", from>>)
                       ELSE IF ~created THEN Err(<<"branchAlreadyExists", name>>)
                       ELSE Ok(0)
          /\ pc' = IF created THEN "done" ELSE "failed"
  /\ UNCHANGED <<commits, prov, fnOut>>

\* variant: the host moves a ref that is there
SrvCreateRefForced(name) == TRUE

\* POST git/refs: the host makes a ref whose name is free
SrvCreateRef(name) == heads[name] = 0

\* GithubProvider.createBranch(from, name): getBranch(from), then POST git/refs
GithubCreateBranch ==
  /\ impl = "github"
  /\ \E from \in BranchNames, name \in BranchNames, okGet \in BOOLEAN, okPost \in BOOLEAN :
       LET found == okGet /\ heads[from] # 0
           created == found /\ okPost /\ SrvCreateRef(name)
       IN /\ Called(Call("createBranch", from, name, <<>>, FALSE))
          /\ log' = << Req("getBranch", found) >>
                      \o (IF found THEN << Req("createBranch", created) >> ELSE <<>>)
          /\ heads' = IF created THEN [heads EXCEPT ![name] = heads[from]] ELSE heads
          /\ result' = IF ~found THEN Err(<<"branchDoesNotExist", from>>)
                       ELSE IF ~created THEN Err(<<"branchAlreadyExists", name>>)
                       ELSE Ok(0)
          /\ pc' = IF created THEN "done" ELSE "failed"
  /\ UNCHANGED <<commits, prov, fnOut>>

\* the requests of a commit, after those answered before, up to the one that
\* failed, and what they leave:
\* POST git/trees with base_tree, POST git/commits with parents: [parent],
\* POST git/refs/heads/{branch}, which the host takes as a fast-forward only
Composed(before, branch, base, parent, entries, failing) ==
  LET treeMade == failing # "tree" /\ ~SrvDeletesAbsent(base, entries)
      commitMade == treeMade /\ failing # "commit"
      moved == commitMade /\ failing # "ref" /\ heads[branch] # 0 /\ heads[branch] = parent
  IN /\ log' = before \o << Req("createTree", treeMade) >>
                 \o (IF treeMade THEN << Req("createCommit", commitMade) >> ELSE <<>>)
                 \o (IF commitMade THEN << Req("updateRef", moved) >> ELSE <<>>)
     /\ commits' = IF commitMade
                     THEN Append(commits, [tree |-> Layer(base, entries, 1), parent |-> parent])
                     ELSE commits
     /\ heads' = IF moved THEN [heads EXCEPT ![branch] = Len(commits) + 1] ELSE heads
     /\ pc' = IF moved THEN "done" ELSE "failed"

Failing == {"none", "getBranch", "getSha", "read", "tree", "commit", "ref"}

\* variant: the entries are written at their names as given
GithubCommitToBranchUnscoped ==
  /\ impl = "github"
  /\ \E branch \in {Source}, changes \in ProviderChanges, failing \in Failing \ {"read"} :
       /\ Called(Call("commitToBranch", "", branch, changes, basePath # ""))
       /\ IF failing = "getBranch" \/ heads[branch] = 0
            THEN /\ log' = << Req("getBranch", FALSE) >>
                 /\ result' = Err(<<"branchDoesNotExist", branch>>)
                 /\ pc' = "failed"
                 /\ UNCHANGED <<heads, commits>>
            ELSE LET tree == commits[heads[branch]].tree
                     base == IF basePath # "" /\ failing # "getSha" /\ DirListed(tree)
                               THEN SubTree(tree) ELSE tree
                 IN /\ Composed(<< Req("getBranch", TRUE) >>, branch, base, heads[branch],
                                         TreeEntries(changes, FALSE), failing)
                    /\ result' = IF pc' = "done" THEN Ok(0)
                                 ELSE Err(<<"couldntWriteFiles", branch>>)
  /\ UNCHANGED <<prov, fnOut>>

\* GithubProvider.commitToBranch({branch, path, changes}): the branch is read
\* anew; with a path the base tree is the tree of that directory, when the
\* listing of its parent names it, and the entries go to path/file
GithubCommitToBranch ==
  /\ impl = "github"
  /\ \E branch \in {Source}, changes \in ProviderChanges, failing \in Failing \ {"read"} :
       /\ Called(Call("commitToBranch", "", branch, changes, basePath # ""))
       /\ IF failing = "getBranch" \/ heads[branch] = 0
            THEN /\ log' = << Req("getBranch", FALSE) >>
                 /\ result' = Err(<<"branchDoesNotExist", branch>>)
                 /\ pc' = "failed"
                 /\ UNCHANGED <<heads, commits>>
            ELSE LET tree == commits[heads[branch]].tree
                     base == IF basePath # "" /\ failing # "getSha" /\ DirListed(tree)
                               THEN SubTree(tree) ELSE tree
                 IN /\ Composed(<< Req("getBranch", TRUE) >>, branch, base, heads[branch],
                                         TreeEntries(changes, TRUE), failing)
                    /\ result' = IF pc' = "done" THEN Ok(0)
                                 ELSE Err(<<"couldntWriteFiles", branch>>)
  /\ UNCHANGED <<prov, fnOut>>

\* GithubProvider.getFromBranch({branch, path}): the recursive listing of the
\* branch, or of the directory, and the content of every blob of it, asked
\* for at path/file
GithubGetFromBranch ==
  /\ impl = "github"
  /\ \E branch \in {Source}, scoped \in BOOLEAN, failing \in {"none", "getBranch", "getSha", "tree", "read"} :
       /\ Called(Call("getFromBranch", "", branch, <<>>, scoped))
       /\ IF failing = "getBranch" \/ heads[branch] = 0
            THEN /\ log' = << Req("getBranch", FALSE) >>
                 /\ result' = Err(<<"branchDoesNotExist", branch>>)
                 /\ pc' = "failed"
                 /\ UNCHANGED fnOut
            ELSE LET tree == commits[heads[branch]].tree
                     inDir == scoped /\ basePath # ""
                     listed == IF inDir /\ failing # "getSha" /\ DirListed(tree)
                                 THEN SubTree(tree) ELSE tree
                     found == \A p \in Paths : listed[p].ex =>
                                 IF inDir THEN Scoped(p) \in Paths /\ tree[Scoped(p)].ex
                                 ELSE tree[p].ex
                     read == failing \notin {"tree", "read"} /\ found
                 IN /\ log' = << Req("getBranch", TRUE), Req("listTree", failing # "tree") >>
                                \o (IF failing # "tree" /\ \E p \in Paths : listed[p].ex
                                      THEN << Req("getFileContent", read) >> ELSE <<>>)
                    /\ IF read
                         THEN /\ fnOut' = listed
                              /\ result' = Ok(0)
                              /\ pc' = "done"
                         ELSE /\ result' = Err(<<IF failing = "tree" THEN "couldntReadFiles"
                                                 ELSE "couldntReadFileContents", branch>>)
                              /\ pc' = "failed"
                              /\ UNCHANGED fnOut
  /\ UNCHANGED <<heads, commits, prov>>

\* prepareBranches of the earlier provider: it keeps the target and the source
\* branch as the host answered them; no failure leaves it
GithubPrepareBranches ==
  /\ impl = "githubLegacy"
  /\ \E reset \in BOOLEAN, ok \in [{"target", "source", "delete", "create", "again"} -> BOOLEAN] :
       LET t == IF ok["target"] THEN heads[Target] ELSE 0
           s == IF ok["source"] THEN heads[Source] ELSE 0
           recreate == s = 0 \/ reset
           deleted == s # 0 /\ reset /\ ok["delete"]
           heads1 == IF deleted THEN [heads EXCEPT ![Source] = 0] ELSE heads
           created == recreate /\ t # 0 /\ ok["create"] /\ heads1[Source] = 0
           heads2 == IF created THEN [heads1 EXCEPT ![Source] = t] ELSE heads1
       IN /\ Called(Call("prepareBranches", "", Source, <<>>, FALSE))
          /\ log' = << Req("getBranch", t # 0), Req("getBranch", s # 0) >>
                      \o (IF s # 0 /\ reset THEN << Req("deleteBranch", deleted) >> ELSE <<>>)
                      \o (IF recreate THEN << Req("createBranch", created),
                                             Req("getBranch", ok["again"] /\ heads2[Source] # 0) >>
                                      ELSE <<>>)
          /\ heads' = heads2
          /\ prov' = [target |-> t,
                      source |-> IF ~recreate THEN s
                                 ELSE IF ok["again"] THEN heads2[Source] ELSE 0]
          /\ result' = Ok(0)
          /\ pc' = "done"
  /\ UNCHANGED <<commits, fnOut>>

\* writeChanges of the earlier provider: the tree and the parent of the commit
\* come from the source branch as prepareBranches kept it; with a path the
\* base tree is the tree of that directory and the entries keep their names
GithubWriteChanges ==
  /\ impl = "githubLegacy"
  /\ \E changes \in ProviderChanges, failing \in Failing \ {"getBranch"} :
       LET live == IF heads[Source] = 0 THEN [p \in Paths |-> NoFile]
                   ELSE commits[heads[Source]].tree
           kept == IF prov.source = 0 THEN live ELSE commits[prov.source].tree
           base == IF basePath = "" THEN kept ELSE SubTree(live)
           thrown == \/ prov.source = 0
                     \/ basePath # "" /\ (failing = "getSha" \/ ~DirListed(live))
                     \/ failing = "read"
                     \/ \E p \in Paths : base[p].ex /\ ~(Scoped(p) \in Paths /\ live[Scoped(p)].ex)
       IN /\ Called(Call("writeChanges", "", Source, changes, basePath # ""))
          /\ IF thrown
               THEN /\ log' = << Req("getFileContent", FALSE) >>
                    /\ Throw("RequestError")
                    /\ UNCHANGED <<heads, commits>>
               ELSE /\ Composed(<< Req("listTree", TRUE) >>
                                  \o (IF \E p \in Paths : base[p].ex
                                        THEN << Req("getFileContent", TRUE) >> ELSE <<>>),
                                Source, base, prov.source,
                                TreeEntries(changes, FALSE), failing)
                    /\ result' = IF pc' = "done" THEN Ok(0) ELSE Err("false")
  /\ UNCHANGED <<prov, fnOut>>

NextProvider ==
  \/ GithubCreateBranch
  \/ GithubCommitToBranch
  \/ GithubGetFromBranch
  \/ GithubPrepareBranches
  \/ GithubWriteChanges

SpecProvider == InitProvider /\ [][NextProvider]_vars

----------------------------------------------------------------------------
(* Properties of the provider operations *)

\* C27: createBranch(from, name) with a branch from that does not exist
\* rejects with the branch-does-not-exist error naming from, and creates no
\* branch: the branches are as before.
C27_MissingFromRejected ==
  (impl = "github" /\ opts.call = "createBranch" /\ pre.heads[opts.from] = 0)
    => /\ pc = "failed"
       /\ result = Err(<<"branchDoesNotExist", opts.from>>)
       /\ heads = pre.heads

\* createBranch from a missing branch, for a name that was free
C27_Witness ==
  /\ impl = "github" /\ opts.call = "createBranch"
  /\ pre.heads[opts.from] = 0
  /\ pre.heads[opts.branch] = 0
  /\ pc = "failed"

ReadAfterCommit ==
  /\ impl = "github"
  /\ opts.call = "getFromBranch" /\ ~opts.scoped /\ pc = "done"
  /\ pre.last.call = "commitToBranch"
  /\ pre.last.branch = opts.branch

\* C25: after a successful commit of a change map to a branch, an unscoped
\* read of the branch returns, for every path f of the map with a string
\* content c, the content c under the key f, or path/f when the commit was
\* made with a path.
C25_CommitThenRead ==
  ReadAfterCommit =>
    \A k \in 1..Len(pre.last.changes) :
       ~pre.last.changes[k].del
         => fnOut[Scoped(pre.last.changes[k].path)] = File(pre.last.changes[k].c)

\* a read after a commit made with a path
C25_Witness ==
  /\ ReadAfterCommit
  /\ basePath # ""
  /\ \E k \in 1..Len(pre.last.changes) : ~pre.last.changes[k].del

\* the call has made a commit object
CommitMade ==
  /\ opts.call \in {"commitToBranch", "writeChanges"}
  /\ Len(commits) > pre.ncommits

\* C30: every commit a commit call makes has as its parent the head the branch
\* had when the call started, and is built on the tree of that head: what the
\* change map does not name is as in that tree. This holds for the first and
\* for every later commit through the same provider.
C30_BuiltOnCurrentHead ==
  CommitMade =>
    /\ commits[Len(commits)].parent = pre.heads[opts.branch]
    /\ pre.heads[opts.branch] # 0
    /\ \A p \in Paths :
         (\A k \in 1..Len(opts.changes) : Scoped(opts.changes[k].path) # p)
           => commits[Len(commits)].tree[p] = commits[pre.heads[opts.branch]].tree[p]

----------------------------------------------------------------------------
(* normalizeDirectoryPath applied to a path string, and to its own result *)

MaxPathLen == 4

\* the path strings: '/', '.', a backslash and a letter, in every order
PathStrings == UNION { [1..n -> {"/", ".", "\\", "d"}] : n \in 0..MaxPathLen }

InitNormalize ==
  /\ commits = InitCommits
  /\ heads = [b \in BranchNames |-> 1]
  /\ prs = <<>>
  /\ hostUnique = TRUE
  /\ impl = "omnipr"
  /\ provider = "github"
  /\ basePath = ""
  /\ fnIn \in PathStrings
  /\ fnOut = <<>>
  /\ prov = [source |-> 0, target |-> 0]
  /\ run = 0
  /\ opts = NoOpts
  /\ pc = "normalize"
  /\ loc = LocInit
  /\ log = <<>>
  /\ calls = <<>>
  /\ result = NoResult
  /\ pre = [heads |-> heads, prs |-> prs, ncommits |-> Len(commits),
            call |-> "none", link |-> 0, stoppedAfterDelete |-> FALSE]

\* normalizeDirectoryPath(path), then normalizeDirectoryPath of what it gave
NormalizePath ==
  /\ pc = "normalize"
  /\ Len(calls) < 2
  /\ fnOut' = normalizeDirectoryPath(IF calls = <<>> THEN fnIn ELSE fnOut)
  /\ calls' = Append(calls, fnOut')
  /\ UNCHANGED <<remote, impl, provider, basePath, fnIn, prov, run, opts, pc, loc,
                 log, result, pre>>

SpecNormalize == InitNormalize /\ [][NormalizePath]_vars

\* the spellings of the repository root: '.', './', '/' and ''
RootSpellings == { <<".">>, <<".", "/">>, <<"/">>, <<>> }

\* C40: normalizeDirectoryPath is idempotent, its result neither begins nor
\* ends with '/', and every spelling of the repository root normalizes to ''.
C40_NormalizeIdempotent ==
  (pc = "normalize" /\ calls # <<>>)
    => /\ Len(calls) = 2 => calls[2] = calls[1]
       /\ calls[1] # <<>> => (calls[1][1] # "/" /\ calls[1][Len(calls[1])] # "/")
       /\ fnIn \in RootSpellings => calls[1] = <<>>

----------------------------------------------------------------------------
(* The fetch a request of a Provider goes through *)

\* request() calls this.fetch, which omnipr has set to options.customFetch;
\* getFileContent of every Provider, and the listing in the pull of
\* Bitbucket, call the global fetch
FetchOf(p, op) ==
  IF op = "getFileContent" \/ (p = "bitbucket" /\ op = "listTree")
    THEN "fetch" ELSE "this.fetch"

\* C39: with options.customFetch supplied, every request a provider issues in
\* pullFiles and createPr goes through customFetch, none through the global
\* fetch.
C39_AllThroughCustomFetch ==
  impl = "omnipr" => \A k \in 1..Len(log) : FetchOf(provider, log[k].op) = "this.fetch"

----------------------------------------------------------------------------
(* The multipart form of the Bitbucket commit: FormData as the sequence of
   its (name, value) fields *)

MaxFormLen == 2

\* the resolved change maps: paths in insertion order, a content or null;
\* the repository may hold files named files and message
FormChanges ==
  { m \in UNION { [1..n -> [path : {"a", "b", "files", "message"},
                            del : BOOLEAN, c : {"x"}]] : n \in 0..MaxFormLen } :
      \A j, k \in 1..Len(m) : j # k => m[j].path # m[k].path }

InitForm ==
  /\ commits = InitCommits
  /\ heads = [b \in BranchNames |-> 1]
  /\ prs = <<>>
  /\ hostUnique = TRUE
  /\ impl \in {"omnipr", "bitbucket"}
  /\ provider = "bitbucket"
  /\ basePath = ""
  /\ fnIn \in FormChanges
  /\ fnOut = <<>>
  /\ prov = [source |-> 1, target |-> 1]
  /\ run = 0
  /\ opts = NoOpts
  /\ pc = "form"
  /\ loc = LocInit
  /\ log = <<>>
  /\ calls = <<>>
  /\ result = NoResult
  /\ pre = [heads |-> heads, prs |-> prs, ncommits |-> Len(commits),
            call |-> "none", link |-> 0, stoppedAfterDelete |-> FALSE]

\* formData.append('files', filePath) for null, formData.append(filePath, content)
FormFields(changes) ==
  [k \in 1..Len(changes) |->
     IF changes[k].del THEN [name |-> "files", value |-> changes[k].path]
     ELSE [name |-> changes[k].path, value |-> changes[k].c]]

\* bitbucket.ts commitChanges: branch and message, then the entries
BitbucketCommitForm ==
  /\ impl = "omnipr" /\ pc = "form"
  /\ fnOut' = << [name |-> "branch", value |-> Source],
                 [name |-> "message", value |-> "commitMessage"] >> \o FormFields(fnIn)
  /\ pc' = "formed"
  /\ UNCHANGED <<remote, impl, provider, basePath, fnIn, prov, run, opts, loc,
                 log, calls, result, pre>>

\* writeChanges of the earlier provider: the entries, then message and branch
BitbucketWriteForm ==
  /\ impl = "bitbucket" /\ pc = "form"
  /\ fnOut' = FormFields(fnIn) \o << [name |-> "message", value |-> "commitMessage"],
                                     [name |-> "branch", value |-> Source] >>
  /\ pc' = "formed"
  /\ UNCHANGED <<remote, impl, provider, basePath, fnIn, prov, run, opts, loc,
                 log, calls, result, pre>>

SpecForm == InitForm /\ [][BitbucketCommitForm \/ BitbucketWriteForm]_vars

\* the number of fields of the form with the name, and with the name and value
Fields(name) == Cardinality({ k \in 1..Len(fnOut) : fnOut[k].name = name })

FieldsWith(name, value) ==
  Cardinality({ k \in 1..Len(fnOut) : fnOut[k] = [name |-> name, value |-> value] })

\* C31: in the form of the Bitbucket commit every path of the change map is in
\* exactly one of two disjoint collections, a content field named by the path
\* or a 'files' delete marker, and the form carries exactly one 'branch' and
\* one 'message' value, the branch name and the commit message.
C31_FormCollections ==
  pc = "formed" =>
    /\ \A k \in 1..Len(fnIn) :
         IF fnIn[k].del
           THEN FieldsWith("files", fnIn[k].path) = 1 /\ Fields(fnIn[k].path) = 0
           ELSE /\ Fields(fnIn[k].path) = 1
                /\ FieldsWith(fnIn[k].path, fnIn[k].c) = 1
                /\ FieldsWith("files", fnIn[k].path) = 0
    /\ Fields("branch") = 1 /\ FieldsWith("branch", Source) = 1
    /\ Fields("message") = 1 /\ FieldsWith("message", "commitMessage") = 1

\* the statement of C31 for change maps that name no file files or message
C31_PlainPaths ==
  (\A k \in 1..Len(fnIn) : fnIn[k].path \in {"a", "b"}) => C31_FormCollections

----------------------------------------------------------------------------
(* Properties of createPr as a sequence of requests *)

\* an invocation of createPr
InCreatePr == impl = "omnipr" /\ opts.call = "createPr"

\* C33: within one createPr no request is retried: a request that failed is
\* the last request of the invocation, which has ended in failure; no later
\* step or stage is started.
C33_NoRetry ==
  InCreatePr =>
    \A k \in 1..Len(log) :
       ~log[k].ok => (k = Len(log) /\ pc = "failed" /\ result.status = "error")

\* a createPr whose commit stage failed after preparation and resolution
C33_Witness ==
  /\ InCreatePr
  /\ pc = "failed"
  /\ \E k \in 1..Len(log) : ~log[k].ok /\ log[k].op \in CommitOps

\* the function-valued changes among the first n entries of the change map
RECURSIVE FnAmong(_, _)
FnAmong(changes, n) ==
  IF n = 0 THEN <<>>
  ELSE IF changes[n].change.kind = "fn"
         THEN Append(FnAmong(changes, n - 1), changes[n].path)
         ELSE FnAmong(changes, n - 1)

\* createPr is resolving, or has resolved and not yet sent a request of the commit
ResolutionStage == pc \in {"resolve", "commitGet", "commitForm", "commitProbe"}

C35_OnlyNamedPathsChange ==
  (opts.call \in {"commitToBranch", "writeChanges"} /\ pc = "done")
    => \A p \in Paths :
         (\A k \in 1..Len(opts.changes) : Scoped(opts.changes[k].path) # p)
           => commits[heads[opts.branch]].tree[p] = commits[pre.heads[opts.branch]].tree[p]

\* createPr has reset a source branch that was there
ResetDone ==
  /\ InCreatePr
  /\ opts.reset /\ pre.heads[Source] # 0
  /\ Succeeded("deleteBranch") /\ Succeeded("createBranch")

\* C36: in a createPr that reset an existing source branch every resolver is
\* given the source branch as it is after the reset: exists and contents are
\* those of the file at the target head, never those of a file the source
\* branch held before.
C36_ResolversSeeResetBranch ==
  ResetDone =>
    \A k \in 1..Len(calls) :
       LET file == commits[loc.targetSha].tree[calls[k].path]
       IN /\ calls[k].exists = file.ex
          /\ calls[k].contents = Defined(IF file.ex THEN file.c ELSE "")

\* a resolver of a path that only the source branch held before the reset
C36_Witness ==
  /\ ResetDone
  /\ \E k \in 1..Len(calls) :
       /\ commits[pre.heads[Source]].tree[calls[k].path].ex
       /\ ~commits[loc.targetSha].tree[calls[k].path].ex
       /\ ~calls[k].exists

----------------------------------------------------------------------------
(* Two invocations in flight at once: omnipr.ts createPr is an async function,
   so a caller may start a second invocation while the first awaits a
   request.  One invocation is the running one (pc, loc, log, opts, calls,
   result, pre); the other waits in fnIn with the same fields.  Every request
   is one step, and the host serves the requests of both in the order they
   arrive. *)

Waiting == [pc |-> pc, loc |-> loc, log |-> log, opts |-> opts,
            calls |-> calls, result |-> result, pre |-> pre]

InitRace ==
  /\ commits = InitCommits
  /\ heads \in { h \in [BranchNames -> 0..2] : h[Target] = 1 }
  /\ prs = << PR(Other, Target, TitleOf(0), DescOf(0)) >>
  /\ hostUnique \in BOOLEAN
  /\ impl = "omnipr"
  /\ provider \in Providers
  /\ basePath = ""
  /\ fnOut = <<>>
  /\ prov = [source |-> 0, target |-> 0]
  /\ run = 0
  /\ opts = NoOpts
  /\ pc = "idle"
  /\ loc = LocInit
  /\ log = <<>>
  /\ calls = <<>>
  /\ result = NoResult
  /\ pre = [heads |-> heads, prs |-> prs, ncommits |-> Len(commits),
            call |-> "none", link |-> 0, stoppedAfterDelete |-> FALSE]
  /\ fnIn = Waiting

\* the change maps of the two invocations
RaceChanges == { << Entry("b", Null), Entry("a", Lit("hello")) >>,
                 << Entry("a", Fn("append")) >> }

\* createPr is called once for each of the two invocations
RaceStart ==
  /\ impl = "omnipr" /\ pc = "idle"
  /\ Begin("getTarget", { o \in ReconcileOpts("createPr") : o.changes \in RaceChanges })

\* the running invocation awaits its next answer and the other one goes on
Switch ==
  /\ impl = "omnipr" /\ run > 0
  /\ fnIn' = Waiting
  /\ pc' = fnIn.pc
  /\ loc' = fnIn.loc
  /\ log' = fnIn.log
  /\ opts' = fnIn.opts
  /\ calls' = fnIn.calls
  /\ result' = fnIn.result
  /\ pre' = fnIn.pre
  /\ UNCHANGED <<remote, impl, provider, basePath, fnOut, prov, run>>

NextRace ==
  \/ RaceStart
  \/ GetTargetSha
  \/ GetSourceSha
  \/ DeleteBranch
  \/ CreateBranch
  \/ ResolveChange
  \/ CommitGetBranch
  \/ CommitBlobs
  \/ CommitTree
  \/ CommitObject
  \/ CommitRef
  \/ CommitForm
  \/ CommitProbe
  \/ CommitActions
  \/ PrSearch
  \/ PrUpdate
  \/ PrCreate
  \/ Switch

SpecRace == InitRace /\ [][NextRace]_vars

\* both invocations of createPr have ended, with a value or an exception
BothFinished ==
  /\ opts.call = "createPr" /\ pc \in {"done", "failed"}
  /\ fnIn.opts.call = "createPr" /\ fnIn.pc \in {"done", "failed"}

\* the requests named op that the waiting invocation has got an answer to
WaitingIssued(op) == \E k \in 1..Len(fnIn.log) : fnIn.log[k].op = op

RECURSIVE IsAncestor(_, _)
IsAncestor(c, h) ==
  IF h = 0 THEN FALSE
  ELSE IF h = c THEN TRUE
  ELSE IsAncestor(c, commits[h].parent)

\* the two commit transactions of github.ts overlap: neither invocation resets
\* the branch, and both have read the same head, so both read it before either
\* moved the ref (a moved ref points at a commit that did not exist before)
HeadReadByBoth ==
  /\ provider = "github"
  /\ opts.call = "createPr" /\ fnIn.opts.call = "createPr"
  /\ ~opts.reset /\ ~fnIn.opts.reset
  /\ loc.parent # 0 /\ loc.parent = fnIn.loc.parent

\* the transaction with this request log has reported success
RefMoved(l) == \E k \in 1..Len(l) : l[k] = Req("updateRef", TRUE)

\* the paths a change map names
PathsOf(changes) == { changes[k].path : k \in 1..Len(changes) }

\* the commit of a transaction is on the branch, and the branch holds what the
\* transaction wrote at the paths the other one does not name
Kept(l, mine, other) ==
  RefMoved(l.log) =>
    /\ IsAncestor(l.loc.newCommit, heads[Source])
    /\ \A p \in PathsOf(mine) \ PathsOf(other) :
         SrvTree(Source)[p] = l.loc.newTree[p]

\* C38: when two compose-then-move-ref commit transactions on one branch
\* interleave (both read the head before either moves the ref), every
\* transaction that reports success has its commit in the ancestry of the
\* branch head and its changes in the branch tree; when both report success
\* both commits are on the branch.  No successfully reported commit is lost.
\* (The ref update of github.ts carries no force flag, so the host takes it only
\* as a fast-forward of the head the transaction read.)
C38_NoReportedCommitLost ==
  HeadReadByBoth =>
    /\ Kept([log |-> log, loc |-> loc], opts.changes, fnIn.opts.changes)
    /\ Kept([log |-> fnIn.log, loc |-> fnIn.loc], fnIn.opts.changes, opts.changes)

\* both transactions read the same head and both sent the ref update: the host
\* took the first and refused the second, which moves no ref and reports failure
C38_Witness ==
  /\ HeadReadByBoth
  /\ RefMoved(log)
  /\ \E k \in 1..Len(fnIn.log) : fnIn.log[k] = Req("updateRef", FALSE)
  /\ fnIn.loc.newCommit # 0
  /\ opts.changes # fnIn.opts.changes

----------------------------------------------------------------------------
(* The joins of providers/github.ts: pull starts one getFileContent per
   selected file and awaits Promise.all of them; commitChanges starts one
   entry per change (a blob upload unless the content is null) and awaits
   Promise.all of them before it asks for the tree.  fnIn holds what was
   started, calls the settled ones in the order they settled, fnOut what
   has been collected (fileContentsMap, or the paths of the tree entries). *)

InitJoin ==
  /\ impl = "omnipr" /\ provider = "github" /\ basePath = ""
  /\ pc \in {"fetching", "uploading"}
  /\ fnIn \in UNION { [S -> IF pc = "fetching" THEN {"file"} ELSE {"null", "content"}] :
                        S \in SUBSET Paths }
  /\ fnOut = {}
  /\ calls = <<>>
  /\ log = <<>>
  /\ heads = [b \in BranchNames |-> 1] /\ commits = InitCommits /\ prs = <<>>
  /\ hostUnique = FALSE /\ prov = [source |-> 0, target |-> 0] /\ run = 0
  /\ opts = NoOpts /\ loc = LocInit /\ result = NoResult
  /\ pre = [heads |-> heads, prs |-> prs, ncommits |-> Len(commits),
            call |-> "none", link |-> 0, stoppedAfterDelete |-> FALSE]

\* the paths whose promise has settled
Settled == { calls[k].path : k \in 1..Len(calls) }

\* one of the started promises settles, in any order: a fetch with the content,
\* with undefined (404) or with an exception; an entry with null content at
\* once, an upload with the blob or with an exception
Settle ==
  /\ pc \in {"fetching", "uploading", "failed"}
  /\ \E p \in DOMAIN fnIn \ Settled :
       \E how \in (IF fnIn[p] = "file" THEN {"content", "undefined", "error"}
                   ELSE IF fnIn[p] = "null" THEN {"null"}
                   ELSE {"content", "error"}) :
         /\ calls' = Append(calls, [path |-> p, how |-> how])
         /\ fnOut' = IF how \in {"content", "null"} THEN fnOut \cup {p} ELSE fnOut
         /\ log' = IF fnIn[p] = "file" THEN Append(log, Req("getFileContent", how # "error"))
                   ELSE IF fnIn[p] = "content" THEN Append(log, Req("createBlob", how # "error"))
                   ELSE log
  /\ UNCHANGED <<remote, impl, provider, basePath, fnIn, prov, run, opts, pc, loc, result, pre>>

\* variant: the stage goes on when the first promise has settled well
JoinAtFirst ==
  /\ pc \in {"fetching", "uploading"}
  /\ \/ /\ \E k \in 1..Len(calls) : calls[k].how = "error"
        /\ Throw("RequestError")
        /\ UNCHANGED log
     \/ /\ calls # <<>> \/ DOMAIN fnIn = {}
        /\ \A k \in 1..Len(calls) : calls[k].how # "error"
        /\ IF pc = "fetching"
             THEN pc' = "done" /\ result' = Ok(0) /\ UNCHANGED log
             ELSE pc' = "commitObject" /\ log' = Append(log, Req("createTree", TRUE))
                  /\ UNCHANGED result
  /\ UNCHANGED <<remote, frame, prov, run, opts, loc, calls, pre>>

\* await Promise.all: rejected once one promise has thrown, fulfilled when all
\* of them have settled well; then pull returns fileContentsMap and
\* commitChanges posts the tree
Join ==
  /\ pc \in {"fetching", "uploading"}
  /\ \/ /\ \E k \in 1..Len(calls) : calls[k].how = "error"
        /\ Throw("RequestError")
        /\ UNCHANGED log
     \/ /\ Settled = DOMAIN fnIn
        /\ \A k \in 1..Len(calls) : calls[k].how # "error"
        /\ IF pc = "fetching"
             THEN pc' = "done" /\ result' = Ok(0) /\ UNCHANGED log
             ELSE pc' = "commitObject" /\ log' = Append(log, Req("createTree", TRUE))
                  /\ UNCHANGED result
  /\ UNCHANGED <<remote, frame, prov, run, opts, loc, calls, pre>>

SpecJoin == InitJoin /\ [][Settle \/ Join]_vars

\* the started promises that settled with this outcome
SettledAs(how) ==
  { calls[k].path : k \in { j \in 1..Len(calls) : calls[j].how = how } }

\* C32: for every completion order, pull returns only after every selected
\* fetch has finished, and what it returns holds every file whose fetch gave
\* content; the tree request is issued only after every blob upload has
\* succeeded.
C32_JoinedBeforeGoingOn ==
  /\ (pc = "done" /\ \A p \in DOMAIN fnIn : fnIn[p] = "file") =>
       /\ Settled = DOMAIN fnIn
       /\ fnOut = SettledAs("content")
  /\ Issued({"createTree"}) =>
       /\ Settled = DOMAIN fnIn
       /\ \A p \in DOMAIN fnIn : fnIn[p] = "content" => p \in SettledAs("content")

\* pull has returned after three fetches that settled out of listing order, one
\* of them with a 404
C32_Witness ==
  /\ pc = "done" /\ Len(calls) = 3
  /\ fnIn["a"] = "file"
  /\ calls[1].path = "b" /\ calls[2] = [path |-> "dir/a", how |-> "undefined"]
  /\ calls[3].path = "a"
  /\ fnOut = {"a", "b"}


============================================================================
